---- MODULE Spec2Model ----
(***************************************************************************)
(* Support console: the Lakebase credential cache (createPasswordCallback), *)
(* and of the support plugin the case-state derivation, the event tables   *)
(* with their HTTP handlers and timeline, and the report normalization.    *)
(***************************************************************************)
EXTENDS Integers, Sequences, FiniteSets, TLC

(***************************************************************************)
(* Bounds of the model.                                                    *)
(***************************************************************************)
NumCallers == 2
MaxFetches == 3
MaxNow == 2
MaxCount == 2
MaxRows == 2
MaxClock == 3
MaxEvents == 2
MaxDraftLen == 5
TicksPerSecond == 2

Callers == 1..NumCallers

(***************************************************************************)
(* JavaScript values.  A number is a finite integer or NaN; a value of     *)
(* unknown type carries its typeof tag.                                    *)
(***************************************************************************)
Num(n) == [t |-> "num", n |-> n]
NaN == [t |-> "nan"]
JsNull == [t |-> "null"]
JsStr(s) == [t |-> "str", s |-> s]
JsBool(b) == [t |-> "bool", b |-> b]

\* a - b on JS numbers
NumSub(a, b) ==
    IF a.t = "num" /\ b.t = "num" THEN Num(a.n - b.n) ELSE NaN

\* a + b on JS numbers
NumAdd(a, b) ==
    IF a.t = "num" /\ b.t = "num" THEN Num(a.n + b.n) ELSE NaN

\* a < b on JS numbers: every comparison with NaN is false
NumLt(a, b) ==
    a.t = "num" /\ b.t = "num" /\ a.n < b.n

(***************************************************************************)
(* Credential cache                                                        *)
(***************************************************************************)
CACHE_BUFFER_MS == 2 * 60 * 1000

\* Strings the credential endpoint can put in expire_time: a timestamp that
\* denotes an epoch instant, or text that is no date.
IsoString(ms) == <<"iso", ms>>
GarbageString == <<"garbage">>
TokenString(k) == <<"token", k>>

\* new Date(s).getTime()
DateGetTime(s) ==
    IF s[1] = "iso" THEN Num(s[2]) ELSE NaN

ExpireTimes ==
    {IsoString(CACHE_BUFFER_MS + k) : k \in 0..(MaxNow + 1)} \cup {GarbageString}

\* What workspaceClient.apiClient.request can produce for the k-th
\* credential exchange: a rejection, a non-object, or an object whose fields
\* may be missing.  Each exchange mints its own token.
ThrownResponse == [t |-> "throw"]
Responses(k) ==
    {ThrownResponse, JsNull}
      \cup [t : {"obj"},
            token : {JsStr(TokenString(k)), JsNull},
            expire_time : {JsStr(e) : e \in ExpireTimes} \cup {JsNull}]

isCredentialResponse(value) ==
    /\ value.t = "obj"
    /\ value.token.t = "str"
    /\ value.expire_time.t = "str"

\* The result of fetchOAuthToken for a response: a TokenCache or a throw.
fetchOAuthToken(response) ==
    IF response.t = "throw" \/ ~isCredentialResponse(response)
    THEN [ok |-> FALSE]
    ELSE [ok |-> TRUE,
          value |-> [token |-> response.token.s,
                     expiresAt |-> DateGetTime(response.expire_time.s)]]

NoEntry == [token |-> <<"none">>, expiresAt |-> NaN]
NoToken == <<"none">>

VARIABLES
    now,            \* Date.now()
    cached,         \* TokenCache | null (NoEntry)
    refreshPromise, \* 0 (null) or the index of the promise it refers to
    promises,       \* the refresh promises created so far, in creation order
    callers,        \* each caller's position in its await of getToken()
    call            \* the last application of a case-state derivation

cacheVars == <<now, cached, refreshPromise, promises, callers>>

\* The tables of the support schema for one case, each in insertion order,
\* and the requests the plugin is serving.
VARIABLES
    dbNow,                        \* NOW() of the database
    support_agent_reports_sync,   \* the synced report rows of the case
    operator_actions,
    support_replies,
    operator_regenerated_reports,
    response_ratings,             \* UNIQUE (support_request_id): at most one row
    request_status,               \* PRIMARY KEY support_request_id: at most one row
    requests,                     \* per client: the handler in flight and its position
    resJson                       \* the body a GET handler is sending

serverVars ==
    <<dbNow, support_agent_reports_sync, operator_actions, support_replies,
      operator_regenerated_reports, response_ratings, request_status,
      requests, resJson>>

\* The state of the support console's App component, and its async handlers
\* that are awaiting a fetch.
VARIABLES
    selected,         \* RequestDetails | null
    pendingAction,    \* the operator action in flight, or "null"
    detailsLoading,
    isDrawerOpen,
    refundAmount,     \* text of the refund amount input
    creditAmount,     \* text of the credit amount input
    handlers          \* the invocations of async handlers and their positions

consoleVars ==
    <<selected, pendingAction, detailsLoading, isDrawerOpen, refundAmount,
      creditAmount, handlers>>

\* A promise's state, with the TokenCache its refresh stored while a caller
\* still awaits it.
PendingPromise == [status |-> "pending", entry |-> NoEntry]

\* A caller: where it stands (idle, awaiting a refresh promise, returned),
\* the promise it awaited (0: answered from the cache), what its await
\* yielded, and whether it called before any fetch had settled.
IdleCaller ==
    [pc |-> "idle", promise |-> 0, outcome |-> "none", token |-> NoToken,
     early |-> FALSE]

\* Faulty variant: the buffer is not subtracted.
FreshNoBuffer(entry, t) ==
    entry # NoEntry /\ NumLt(Num(t), entry.expiresAt)

\* Faulty variant: the expiry is not looked at.
FreshWhenPresent(entry, t) ==
    entry # NoEntry

\* cached && now < cached.expiresAt - CACHE_BUFFER_MS
Fresh(entry, t) ==
    entry # NoEntry /\ NumLt(Num(t), NumSub(entry.expiresAt, Num(CACHE_BUFFER_MS)))

Settled(p) == promises[p].status # "pending"

Awaits(c, p) == callers[c].pc = "awaiting" /\ callers[c].promise = p

InitCache ==
    /\ now = 0
    /\ cached = NoEntry
    /\ refreshPromise = 0
    /\ promises = <<>>
    /\ callers = [c \in Callers |-> IdleCaller]

\* Faulty variant: every call without a fresh entry starts a refresh.
AlwaysStartsRefresh == TRUE

\* if (!refreshPromise)
NoRefreshInFlight == refreshPromise = 0

\* One call of the password callback by caller c, up to its return statement.
GetToken(c) ==
    /\ callers[c].pc # "awaiting"
    /\ IF Fresh(cached, now)
       THEN /\ callers' = [callers EXCEPT ![c] =
                   [pc |-> "returned", promise |-> 0, outcome |-> "token",
                    token |-> cached.token, early |-> FALSE]]
            /\ UNCHANGED <<refreshPromise, promises>>
       ELSE IF NoRefreshInFlight
       THEN /\ Len(promises) < MaxFetches
            /\ promises' = Append(promises, PendingPromise)
            /\ refreshPromise' = Len(promises) + 1
            /\ callers' = [callers EXCEPT ![c] =
                   [pc |-> "awaiting", promise |-> Len(promises) + 1,
                    outcome |-> "none", token |-> NoToken,
                    early |-> \A p \in 1..Len(promises) : ~Settled(p)]]
       ELSE /\ callers' = [callers EXCEPT ![c] =
                   [pc |-> "awaiting", promise |-> refreshPromise,
                    outcome |-> "none", token |-> NoToken,
                    early |-> \A p \in 1..Len(promises) : ~Settled(p)]]
            /\ UNCHANGED <<refreshPromise, promises>>
    /\ UNCHANGED <<now, cached, call>>
    /\ UNCHANGED <<serverVars, consoleVars>>

\* Faulty variant: a throw empties the cache.
TryBlockDropsEntryOnThrow(p, r) ==
    IF r.ok
    THEN /\ cached' = r.value
         /\ promises' = [promises EXCEPT ![p] =
                [status |-> "fulfilled", entry |-> r.value]]
    ELSE /\ cached' = NoEntry
         /\ promises' = [promises EXCEPT ![p] =
                [status |-> "rejected", entry |-> NoEntry]]

\* The try block of the refresh body for the fetch result r: a value is
\* stored and returned, a throw leaves cached alone and rejects the promise.
TryBlock(p, r) ==
    IF r.ok
    THEN /\ cached' = r.value
         /\ promises' = [promises EXCEPT ![p] =
                [status |-> "fulfilled", entry |-> r.value]]
    ELSE /\ cached' = cached
         /\ promises' = [promises EXCEPT ![p] =
                [status |-> "rejected", entry |-> NoEntry]]

\* Faulty variant: the marker is cleared after a success only.
FinallyBlockOnSuccessOnly(r) ==
    refreshPromise' = IF r.ok THEN 0 ELSE refreshPromise

\* finally { refreshPromise = null }
FinallyBlock(r) ==
    refreshPromise' = 0

\* The refresh body of promise p resumes after its await of fetchOAuthToken
\* and runs to its end.
RefreshSettles(p, response) ==
    /\ p \in 1..Len(promises)
    /\ promises[p].status = "pending"
    /\ LET r == fetchOAuthToken(response) IN
       /\ TryBlock(p, r)
       /\ FinallyBlock(r)
    /\ UNCHANGED <<now, callers, call>>
    /\ UNCHANGED <<serverVars, consoleVars>>

\* Faulty variant: a rejection is answered with the stale cached token.
AwaitedResultOrStale(c) ==
    LET p == promises[callers[c].promise] IN
    IF p.status = "fulfilled"
    THEN [outcome |-> "token", token |-> p.entry.token]
    ELSE IF cached # NoEntry
    THEN [outcome |-> "token", token |-> cached.token]
    ELSE [outcome |-> "error", token |-> NoToken]

\* Faulty variant: the caller reads the cache instead of the promise's value.
AwaitedResultFromCache(c) ==
    LET p == promises[callers[c].promise] IN
    IF p.status = "fulfilled"
    THEN [outcome |-> "token", token |-> cached.token]
    ELSE [outcome |-> "error", token |-> NoToken]

\* What caller c's await yields once the promise it awaits has settled.
AwaitedResult(c) ==
    LET p == promises[callers[c].promise] IN
    IF p.status = "fulfilled"
    THEN [outcome |-> "token", token |-> p.entry.token]
    ELSE [outcome |-> "error", token |-> NoToken]

\* The promise a caller awaits has settled: the caller's await resumes with
\* the promise's value or its rejection.  The value of a promise that no
\* caller awaits any more is unreachable and is dropped.
CallerResumes(c) ==
    /\ callers[c].pc = "awaiting"
    /\ Settled(callers[c].promise)
    /\ callers' = [callers EXCEPT ![c] =
           [@ EXCEPT !.pc = "returned",
                     !.outcome = AwaitedResult(c).outcome,
                     !.token = AwaitedResult(c).token]]
    /\ promises' = IF \E d \in Callers \ {c} : Awaits(d, callers[c].promise)
                   THEN promises
                   ELSE [promises EXCEPT ![callers[c].promise].entry = NoEntry]
    /\ UNCHANGED <<now, cached, refreshPromise, call>>
    /\ UNCHANGED <<serverVars, consoleVars>>

\* The wall clock advances.
Tick ==
    /\ now < MaxNow
    /\ now' = now + 1
    /\ UNCHANGED <<cached, refreshPromise, promises, callers, call>>
    /\ UNCHANGED <<serverVars, consoleVars>>

(***************************************************************************)
(* Case-state derivation of the support plugin                             *)
(***************************************************************************)
NoCall == [fn |-> "none", applied |-> FALSE]

\* Values the callers pass for the stored status: no row / SQL NULL, a text
\* value, or a value that is no string.
StatusValues ==
    {JsNull, Num(1)}
      \cup {JsStr(x) : x \in {"pending", "in_progress", "done", "blocked", "other"}}

FlagValues == {JsBool(TRUE), JsBool(FALSE), JsNull}

CountValues == {JsNull} \cup {Num(n) : n \in 0..MaxCount}

ActionTypes == {"apply_refund", "apply_credit", "send_reply"}

CaseStatuses == {"pending", "in_progress", "done", "blocked"}

\* Number(v ?? 0)
NumberOrZero(v) ==
    CASE v.t = "null" -> Num(0)
      [] v.t = "num" -> v
      [] v.t = "bool" -> Num(IF v.b THEN 1 ELSE 0)
      [] OTHER -> NaN

\* v === true
IsTrue(v) == v.t = "bool" /\ v.b

\* Faulty variant: done is decided before blocked.
deriveCaseStatusDoneFirst(params) ==
    LET status == IF params.status.t = "str" THEN params.status ELSE JsNull
        activityCount ==
            NumAdd(NumAdd(NumberOrZero(params.actionCount),
                          NumberOrZero(params.replyCount)),
                   NumberOrZero(params.regenCount))
    IN  IF IsTrue(params.hasRefund) \/ IsTrue(params.hasCredit)
             \/ status = JsStr("done")
        THEN "done"
        ELSE IF status = JsStr("blocked") THEN "blocked"
        ELSE IF NumLt(Num(0), activityCount) \/ status = JsStr("in_progress")
        THEN "in_progress"
        ELSE "pending"

\* Faulty variant: a stored in_progress is decided before done.
deriveCaseStatusStoredFirst(params) ==
    LET status == IF params.status.t = "str" THEN params.status ELSE JsNull
        activityCount ==
            NumAdd(NumAdd(NumberOrZero(params.actionCount),
                          NumberOrZero(params.replyCount)),
                   NumberOrZero(params.regenCount))
    IN  IF status = JsStr("blocked") THEN "blocked"
        ELSE IF status = JsStr("in_progress") THEN "in_progress"
        ELSE IF IsTrue(params.hasRefund) \/ IsTrue(params.hasCredit)
                  \/ status = JsStr("done")
        THEN "done"
        ELSE IF NumLt(Num(0), activityCount) THEN "in_progress"
        ELSE "pending"

deriveCaseStatus(params) ==
    LET status == IF params.status.t = "str" THEN params.status ELSE JsNull
        activityCount ==
            NumAdd(NumAdd(NumberOrZero(params.actionCount),
                          NumberOrZero(params.replyCount)),
                   NumberOrZero(params.regenCount))
    IN  IF status = JsStr("blocked") THEN "blocked"
        ELSE IF IsTrue(params.hasRefund) \/ IsTrue(params.hasCredit)
                  \/ status = JsStr("done")
        THEN "done"
        ELSE IF NumLt(Num(0), activityCount) \/ status = JsStr("in_progress")
        THEN "in_progress"
        ELSE "pending"

\* Faulty variant: the two done rows are swapped.
deriveNextActionDoneSwapped(params) ==
    IF params.caseStatus = "pending" THEN "review_report"
    ELSE IF params.caseStatus = "blocked" THEN "investigate_blocker"
    ELSE IF params.caseStatus = "done"
    THEN (IF params.hasReply THEN "send_customer_reply" ELSE "monitor")
    ELSE IF params.hasReply /\ ~params.hasRefund /\ ~params.hasCredit
    THEN "apply_resolution_or_regenerate"
    ELSE IF ~params.hasReply /\ (params.hasRefund \/ params.hasCredit)
    THEN "send_customer_reply"
    ELSE "continue_investigation"

\* Faulty variant: the apply_resolution_or_regenerate row is missing.
deriveNextActionNoResolutionRow(params) ==
    IF params.caseStatus = "pending" THEN "review_report"
    ELSE IF params.caseStatus = "blocked" THEN "investigate_blocker"
    ELSE IF params.caseStatus = "done"
    THEN (IF params.hasReply THEN "monitor" ELSE "send_customer_reply")
    ELSE IF ~params.hasReply /\ (params.hasRefund \/ params.hasCredit)
    THEN "send_customer_reply"
    ELSE "continue_investigation"

\* Faulty variant: an in_progress case without a reply asks for one.
deriveNextActionReplyFirst(params) ==
    IF params.caseStatus = "pending" THEN "review_report"
    ELSE IF params.caseStatus = "blocked" THEN "investigate_blocker"
    ELSE IF params.caseStatus = "done"
    THEN (IF params.hasReply THEN "monitor" ELSE "send_customer_reply")
    ELSE IF params.hasReply /\ ~params.hasRefund /\ ~params.hasCredit
    THEN "apply_resolution_or_regenerate"
    ELSE IF ~params.hasReply THEN "send_customer_reply"
    ELSE "continue_investigation"

deriveNextAction(params) ==
    IF params.caseStatus = "pending" THEN "review_report"
    ELSE IF params.caseStatus = "blocked" THEN "investigate_blocker"
    ELSE IF params.caseStatus = "done"
    THEN (IF params.hasReply THEN "monitor" ELSE "send_customer_reply")
    ELSE IF params.hasReply /\ ~params.hasRefund /\ ~params.hasCredit
    THEN "apply_resolution_or_regenerate"
    ELSE IF ~params.hasReply /\ (params.hasRefund \/ params.hasCredit)
    THEN "send_customer_reply"
    ELSE "continue_investigation"

\* rows.some((a) => a.action_type === type)
SomeAction(actions, type) ==
    \E i \in 1..Len(actions) : actions[i] = type

\* The rows GET /requests/:id reads for one case: the action types of its
\* operator_actions rows (newest first), the numbers of its reply and
\* regeneration rows, and the status of its request_status row.
RowSeqs(S) == UNION {[1..n -> S] : n \in 0..MaxRows}

CaseRows ==
    [actions : RowSeqs(ActionTypes),
     replies : 0..MaxRows,
     regenerations : 0..MaxRows,
     status : StatusValues \ {Num(1)}]

\* case_state of GET /requests/:id, as far as status and next action go.
detailCaseState(rows) ==
    LET hasRefund == SomeAction(rows.actions, "apply_refund")
        hasCredit == SomeAction(rows.actions, "apply_credit")
        hasReply == rows.replies > 0 \/ SomeAction(rows.actions, "send_reply")
        caseStatus ==
            deriveCaseStatus([status |-> rows.status,
                              hasRefund |-> JsBool(hasRefund),
                              hasCredit |-> JsBool(hasCredit),
                              actionCount |-> Num(Len(rows.actions)),
                              replyCount |-> Num(rows.replies),
                              regenCount |-> Num(rows.regenerations)])
    IN  [case_status |-> caseStatus,
         next_action |-> deriveNextAction([caseStatus |-> caseStatus,
                                           hasReply |-> hasReply,
                                           hasRefund |-> hasRefund,
                                           hasCredit |-> hasCredit]),
         has_reply |-> hasReply,
         has_refund |-> hasRefund,
         has_credit |-> hasCredit,
         action_count |-> Len(rows.actions),
         reply_count |-> rows.replies,
         regen_count |-> rows.regenerations]

StatusParams ==
    [status : StatusValues, hasRefund : FlagValues, hasCredit : FlagValues,
     actionCount : CountValues, replyCount : CountValues,
     regenCount : CountValues]

NextActionParams ==
    [caseStatus : CaseStatuses, hasReply : BOOLEAN, hasRefund : BOOLEAN,
     hasCredit : BOOLEAN]

\* An application that has its arguments and has not run yet.
Pending(fn, params) == [fn |-> fn, params |-> params, applied |-> FALSE]

Applied(result) ==
    [fn |-> call.fn, params |-> call.params, applied |-> TRUE,
     result |-> result]

ApplyDeriveCaseStatus ==
    /\ call.fn = "deriveCaseStatus" /\ ~call.applied
    /\ call' = Applied(deriveCaseStatus(call.params))
    /\ UNCHANGED cacheVars
    /\ UNCHANGED <<serverVars, consoleVars>>

ApplyDeriveNextAction ==
    /\ call.fn = "deriveNextAction" /\ ~call.applied
    /\ call' = Applied(deriveNextAction(call.params))
    /\ UNCHANGED cacheVars
    /\ UNCHANGED <<serverVars, consoleVars>>

GetRequestDetail ==
    /\ call.fn = "detailCaseState" /\ ~call.applied
    /\ call' = Applied(detailCaseState(call.params))
    /\ UNCHANGED cacheVars
    /\ UNCHANGED <<serverVars, consoleVars>>

(***************************************************************************)
(* Event tables and HTTP handlers of the support plugin, for one case      *)
(***************************************************************************)
\* HTTP requests that can be in flight at the same time.
Clients == {"c1", "c2"}

RatingValues == {"thumbs_up", "thumbs_down"}

\* ActionBody.action_type
PostedActionTypes == {"apply_refund", "apply_credit"}

\* The rows of the three tables that only grow.
EventCount ==
    Len(operator_actions) + Len(support_replies)
      + Len(operator_regenerated_reports)

IdleRequest == [op |-> "idle", pc |-> "idle", action_type |-> "none"]

NoResponse == [kind |-> "none"]

tables ==
    <<operator_actions, support_replies, operator_regenerated_reports,
      response_ratings, request_status>>

\* The tables after setup, with the synced report of the case in place.
InitServer ==
    /\ dbNow = 1
    /\ support_agent_reports_sync = <<[ts |-> 0]>>
    /\ operator_actions = <<>>
    /\ support_replies = <<>>
    /\ operator_regenerated_reports = <<>>
    /\ response_ratings = <<>>
    /\ request_status = <<>>
    /\ requests = [c \in Clients |-> IdleRequest]
    /\ resJson = NoResponse

\* { ...f, ...g }
ObjectSpread(f, g) ==
    [k \in DOMAIN f \cup DOMAIN g |-> IF k \in DOMAIN g THEN g[k] ELSE f[k]]

\* MAX(...) over the values that are not NULL
MaxOf(S) == CHOOSE x \in S : \A y \in S : y <= x

\* ORDER BY created_at DESC.  NOW() never runs backwards, so the newest row
\* of a table is the one inserted last.
NewestFirst(rows) == [i \in 1..Len(rows) |-> rows[Len(rows) + 1 - i]]

CreatedAt(rows) == {rows[i].created_at : i \in 1..Len(rows)}

\* The request row of both GET handlers: the newest of the synced report and
\* the regenerated reports (ORDER BY event_ts DESC, first row).
LatestReportRow ==
    LET sync == [ts |-> support_agent_reports_sync[1].ts,
                 report_source |-> "sync"]
        regenerated == NewestFirst(operator_regenerated_reports)
    IN  IF regenerated # <<>> /\ regenerated[1].created_at > sync.ts
        THEN [ts |-> regenerated[1].created_at, report_source |-> "regenerated"]
        ELSE sync

\* String(d) for a Date d read from a TIMESTAMPTZ column: Date.toString()
\* names the second and leaves the fraction of the second out.
DateToString(t) == IsoString((t \div TicksPerSecond) * TicksPerSecond)

\* The comparator of the timeline sort:
\* new Date(String(b.event_at)).getTime() - new Date(String(a.event_at)).getTime()
TimelineCompare(a, b) ==
    NumSub(DateGetTime(DateToString(b.event_at)),
           DateGetTime(DateToString(a.event_at))).n

\* Array.prototype.sort with TimelineCompare: a stable sort, every element
\* is placed behind the elements that do not compare greater than it.
RECURSIVE ArraySort(_)
ArraySort(events) ==
    IF events = <<>> THEN <<>>
    ELSE LET sorted == ArraySort(SubSeq(events, 1, Len(events) - 1))
             e == events[Len(events)]
             k == Cardinality({i \in 1..Len(sorted) :
                                  TimelineCompare(sorted[i], e) <= 0})
         IN  SubSeq(sorted, 1, k) \o <<e>> \o SubSeq(sorted, k + 1, Len(sorted))

EventsOf(rows, kind) ==
    [i \in 1..Len(rows) |->
        [event_type |-> kind, event_at |-> rows[i].created_at,
         details |-> rows[i]]]

\* Faulty variant: every action is reported under one kind.
ActionEventsAsApplied(rows) == EventsOf(rows, "action_applied")

\* ...actions.rows.map((ac) => ({ event_type: ac.action_type, ... }))
ActionEvents(rows) ==
    [i \in 1..Len(rows) |->
        [event_type |-> rows[i].action_type, event_at |-> rows[i].created_at,
         details |-> rows[i]]]

\* The timeline of GET /requests/:id.
Timeline ==
    LET row == LatestReportRow IN
    ArraySort(
        <<[event_type |-> "report_generated", event_at |-> row.ts,
           details |-> [source |-> row.report_source]]>>
        \o EventsOf(NewestFirst(operator_regenerated_reports), "report_regenerated")
        \o EventsOf(NewestFirst(support_replies), "reply_sent")
        \o ActionEvents(NewestFirst(operator_actions))
        \o EventsOf(response_ratings, "response_rated"))

\* statusRow.rows[0]?.status
StoredStatus ==
    IF request_status = <<>> THEN JsNull ELSE JsStr(request_status[1].status)

ActionTypesRead ==
    [i \in 1..Len(operator_actions) |->
        NewestFirst(operator_actions)[i].action_type]

\* The body GET /requests/:id answers with: case_state and timeline.
DetailResponse ==
    LET timeline == Timeline
        row == LatestReportRow
        state == detailCaseState(
                     [actions |-> ActionTypesRead,
                      replies |-> Len(support_replies),
                      regenerations |-> Len(operator_regenerated_reports),
                      status |-> StoredStatus])
    IN  [kind |-> "detail",
         case_state |->
            ObjectSpread(state,
               [last_action_type |->
                    IF request_status # <<>> THEN request_status[1].last_action
                    ELSE IF operator_actions # <<>> THEN ActionTypesRead[1]
                    ELSE "null",
                last_event_at |->
                    IF timeline # <<>> THEN timeline[1].event_at
                    ELSE IF request_status # <<>>
                    THEN request_status[1].updated_at
                    ELSE row.ts,
                latest_report_source |-> row.report_source]),
         timeline |-> timeline]

\* The item GET /requests answers with for the case: case_state, computed
\* from the aggregates of the list query.
ListResponse ==
    LET row == LatestReportRow
        has_refund == SomeAction(ActionTypesRead, "apply_refund")
        has_credit == SomeAction(ActionTypesRead, "apply_credit")
        has_reply == Len(support_replies) > 0
                       \/ SomeAction(ActionTypesRead, "send_reply")
        caseStatus ==
            deriveCaseStatus([status |-> StoredStatus,
                              hasRefund |-> JsBool(has_refund),
                              hasCredit |-> JsBool(has_credit),
                              actionCount |-> Num(Len(operator_actions)),
                              replyCount |-> Num(Len(support_replies)),
                              regenCount |-> Num(Len(operator_regenerated_reports))])
    IN  [kind |-> "list",
         case_state |->
            [case_status |-> caseStatus,
             next_action |-> deriveNextAction([caseStatus |-> caseStatus,
                                               hasReply |-> has_reply,
                                               hasRefund |-> has_refund,
                                               hasCredit |-> has_credit]),
             has_reply |-> has_reply,
             has_refund |-> has_refund,
             has_credit |-> has_credit,
             action_count |-> Len(operator_actions),
             reply_count |-> Len(support_replies),
             regen_count |-> Len(operator_regenerated_reports),
             last_action_type |->
                 IF operator_actions # <<>> THEN ActionTypesRead[1]
                 ELSE IF request_status # <<>> THEN request_status[1].last_action
                 ELSE "null",
             last_event_at |->
                 MaxOf({row.ts} \cup CreatedAt(operator_actions)
                         \cup CreatedAt(support_replies)
                         \cup CreatedAt(operator_regenerated_reports)
                         \cup {request_status[i].updated_at :
                                 i \in 1..Len(request_status)}),
             latest_report_source |-> row.report_source]]

\* INSERT INTO support.request_status ... ON CONFLICT (support_request_id)
\* DO UPDATE: the one status row of the case is written whole.
UpsertStatus(status, last_action) ==
    request_status' =
        <<[status |-> status, last_action |-> last_action, updated_at |-> dbNow]>>

\* Faulty variant: the new action row takes the place of the rows before it.
InsertActionOverwrites(type) ==
    operator_actions' =
        <<[action_id |-> 1, action_type |-> type, created_at |-> dbNow]>>

InsertAction(type) ==
    operator_actions' =
        Append(operator_actions,
               [action_id |-> Len(operator_actions) + 1, action_type |-> type,
                created_at |-> dbNow])

\* GET /requests: SELECTs only.
GetRequests ==
    /\ resJson = NoResponse
    /\ resJson' = ListResponse
    /\ UNCHANGED <<tables, support_agent_reports_sync, dbNow, requests>>
    /\ UNCHANGED <<cacheVars, call, consoleVars>>

\* Faulty variant: reading a case marks it as in progress.
GetRequestsByIdMarksSeen ==
    /\ resJson = NoResponse
    /\ resJson' = DetailResponse
    /\ UpsertStatus("in_progress", "view")
    /\ UNCHANGED <<operator_actions, support_replies,
                   operator_regenerated_reports, response_ratings>>
    /\ UNCHANGED <<support_agent_reports_sync, dbNow, requests>>
    /\ UNCHANGED <<cacheVars, call, consoleVars>>

\* GET /requests/:id: SELECTs only.
GetRequestsById ==
    /\ resJson = NoResponse
    /\ resJson' = DetailResponse
    /\ UNCHANGED <<tables, support_agent_reports_sync, dbNow, requests>>
    /\ UNCHANGED <<cacheVars, call, consoleVars>>

\* res.json of a GET handler: the body has left the server.
ResponseSent ==
    /\ resJson # NoResponse
    /\ resJson' = NoResponse
    /\ UNCHANGED <<tables, support_agent_reports_sync, dbNow, requests>>
    /\ UNCHANGED <<cacheVars, call, consoleVars>>

\* POST /actions with a valid payload, up to the await of its INSERT.
PostActions(c, type) ==
    /\ resJson = NoResponse
    /\ requests[c] = IdleRequest
    /\ EventCount < MaxEvents
    /\ InsertAction(type)
    /\ requests' = [requests EXCEPT ![c] =
           [op |-> "actions", pc |-> "status", action_type |-> type]]
    /\ UNCHANGED <<support_replies, operator_regenerated_reports,
                   response_ratings, request_status>>
    /\ UNCHANGED <<support_agent_reports_sync, dbNow, resJson>>
    /\ UNCHANGED <<cacheVars, call, consoleVars>>

\* POST /actions after its INSERT: the status upsert and the 201.
PostActionsStatus(c) ==
    /\ resJson = NoResponse
    /\ requests[c].op = "actions" /\ requests[c].pc = "status"
    /\ UpsertStatus(IF requests[c].action_type \in {"apply_refund", "apply_credit"}
                    THEN "done" ELSE "in_progress",
                    requests[c].action_type)
    /\ requests' = [requests EXCEPT ![c] = IdleRequest]
    /\ UNCHANGED <<operator_actions, support_replies,
                   operator_regenerated_reports, response_ratings>>
    /\ UNCHANGED <<support_agent_reports_sync, dbNow, resJson>>
    /\ UNCHANGED <<cacheVars, call, consoleVars>>

\* POST /replies with a valid payload, up to the await of its first INSERT.
PostReplies(c) ==
    /\ resJson = NoResponse
    /\ requests[c] = IdleRequest
    /\ EventCount + 1 < MaxEvents
    /\ support_replies' =
           Append(support_replies,
                  [reply_id |-> Len(support_replies) + 1, created_at |-> dbNow])
    /\ requests' = [requests EXCEPT ![c] =
           [op |-> "replies", pc |-> "action", action_type |-> "send_reply"]]
    /\ UNCHANGED <<operator_actions, operator_regenerated_reports,
                   response_ratings, request_status>>
    /\ UNCHANGED <<support_agent_reports_sync, dbNow, resJson>>
    /\ UNCHANGED <<cacheVars, call, consoleVars>>

\* POST /replies: the INSERT of its send_reply action.
PostRepliesAction(c) ==
    /\ resJson = NoResponse
    /\ requests[c].op = "replies" /\ requests[c].pc = "action"
    /\ EventCount < MaxEvents
    /\ InsertAction("send_reply")
    /\ requests' = [requests EXCEPT ![c].pc = "status"]
    /\ UNCHANGED <<support_replies, operator_regenerated_reports,
                   response_ratings, request_status>>
    /\ UNCHANGED <<support_agent_reports_sync, dbNow, resJson>>
    /\ UNCHANGED <<cacheVars, call, consoleVars>>

\* Faulty variant: a reply closes the case.
PostRepliesStatusDone(c) ==
    /\ resJson = NoResponse
    /\ requests[c].op = "replies" /\ requests[c].pc = "status"
    /\ UpsertStatus("done", "send_reply")
    /\ requests' = [requests EXCEPT ![c] = IdleRequest]
    /\ UNCHANGED <<operator_actions, support_replies,
                   operator_regenerated_reports, response_ratings>>
    /\ UNCHANGED <<support_agent_reports_sync, dbNow, resJson>>
    /\ UNCHANGED <<cacheVars, call, consoleVars>>

\* POST /replies: the status upsert and the 201.
PostRepliesStatus(c) ==
    /\ resJson = NoResponse
    /\ requests[c].op = "replies" /\ requests[c].pc = "status"
    /\ UpsertStatus("in_progress", "send_reply")
    /\ requests' = [requests EXCEPT ![c] = IdleRequest]
    /\ UNCHANGED <<operator_actions, support_replies,
                   operator_regenerated_reports, response_ratings>>
    /\ UNCHANGED <<support_agent_reports_sync, dbNow, resJson>>
    /\ UNCHANGED <<cacheVars, call, consoleVars>>

\* INSERT INTO support.response_ratings ... ON CONFLICT (support_request_id)
\* DO UPDATE SET rating = EXCLUDED.rating, ..., created_at = NOW()
RatingUpsert(rating) ==
    IF response_ratings = <<>>
    THEN <<[rating_id |-> 1, rating |-> rating, created_at |-> dbNow]>>
    ELSE <<[rating_id |-> response_ratings[1].rating_id, rating |-> rating,
            created_at |-> dbNow]>>

\* POST /ratings with a valid payload: one statement.
PostRatings(c, rating) ==
    /\ resJson = NoResponse
    /\ requests[c] = IdleRequest
    /\ response_ratings' = RatingUpsert(rating)
    /\ UNCHANGED <<operator_actions, support_replies,
                   operator_regenerated_reports, request_status>>
    /\ UNCHANGED <<support_agent_reports_sync, dbNow, requests, resJson>>
    /\ UNCHANGED <<cacheVars, call, consoleVars>>

\* POST /regenerate after the serving endpoint has answered: the INSERT of
\* the regenerated report.
PostRegenerate(c) ==
    /\ resJson = NoResponse
    /\ requests[c] = IdleRequest
    /\ EventCount < MaxEvents
    /\ operator_regenerated_reports' =
           Append(operator_regenerated_reports,
                  [regenerated_report_id |-> Len(operator_regenerated_reports) + 1,
                   created_at |-> dbNow])
    /\ requests' = [requests EXCEPT ![c] =
           [op |-> "regenerate", pc |-> "status",
            action_type |-> "regenerate_report"]]
    /\ UNCHANGED <<operator_actions, support_replies, response_ratings,
                   request_status>>
    /\ UNCHANGED <<support_agent_reports_sync, dbNow, resJson>>
    /\ UNCHANGED <<cacheVars, call, consoleVars>>

\* POST /regenerate: the status upsert and the 201.
PostRegenerateStatus(c) ==
    /\ resJson = NoResponse
    /\ requests[c].op = "regenerate" /\ requests[c].pc = "status"
    /\ UpsertStatus("in_progress", "regenerate_report")
    /\ requests' = [requests EXCEPT ![c] = IdleRequest]
    /\ UNCHANGED <<operator_actions, support_replies,
                   operator_regenerated_reports, response_ratings>>
    /\ UNCHANGED <<support_agent_reports_sync, dbNow, resJson>>
    /\ UNCHANGED <<cacheVars, call, consoleVars>>

\* A query of a handler in flight rejects: withJsonError answers 500 and the
\* handler's remaining statements do not run.
QueryFails(c) ==
    /\ resJson = NoResponse
    /\ requests[c] # IdleRequest
    /\ requests' = [requests EXCEPT ![c] = IdleRequest]
    /\ UNCHANGED <<tables, support_agent_reports_sync, dbNow, resJson>>
    /\ UNCHANGED <<cacheVars, call, consoleVars>>

\* The database clock advances.
TickDb ==
    /\ resJson = NoResponse
    /\ dbNow < MaxClock
    /\ dbNow' = dbNow + 1
    /\ UNCHANGED <<tables, support_agent_reports_sync, requests, resJson>>
    /\ UNCHANGED <<cacheVars, call, consoleVars>>

(***************************************************************************)
(* Report normalization of the support plugin                              *)
(*                                                                         *)
(* An object is its own-property map.  A string is a text (a sequence of   *)
(* tokens: "sp" is one whitespace character, every other token a run of    *)
(* non-whitespace characters), the text of a number, or the JSON text of   *)
(* a value.  Amounts are counted in cents.                                 *)
(***************************************************************************)
JsUndefined == [t |-> "undefined"]
Obj(f) == [t |-> "obj", f |-> f]

Text(w) == [k |-> "text", w |-> w]
Numeric(n) == [k |-> "numeric", n |-> n]
JsonText(v) == [k |-> "json", v |-> v]

EmptyString == JsStr(Text(<<>>))

\* o[k]
Get(o, k) == IF k \in DOMAIN o.f THEN o.f[k] ELSE JsUndefined

\* a ?? b
Coalesce(a, b) == IF a.t \in {"null", "undefined"} THEN b ELSE a

\* !!v
Truthy(v) ==
    CASE v.t \in {"null", "undefined", "nan"} -> FALSE
      [] v.t = "num" -> v.n # 0
      [] v.t = "bool" -> v.b
      [] v.t = "str" -> v.s # Text(<<>>)
      [] OTHER -> TRUE

\* s.trim().length === 0
IsBlank(s) == s.k = "text" /\ \A i \in 1..Len(s.w) : s.w[i] = "sp"

\* Number(s): the empty string and a string of whitespace give 0, the text
\* of a number gives the number, every other text gives NaN.
NumberOfString(s) ==
    IF s.k = "numeric" THEN Num(s.n)
    ELSE IF IsBlank(s) THEN Num(0)
    ELSE NaN

\* JSON.parse(s): the value, or a SyntaxError.  Words and the empty string
\* are no JSON.
JsonParse(s) ==
    IF s.k = "json" THEN [ok |-> TRUE, value |-> s.v]
    ELSE IF s.k = "numeric" THEN [ok |-> TRUE, value |-> Num(s.n)]
    ELSE [ok |-> FALSE]

\* The own properties { ...v } copies: those of an object, none of null, a
\* number or a boolean.
SpreadOf(v) == IF v.t = "obj" THEN v.f ELSE <<>>

DEFAULT_REPORT ==
    [credit_recommendation |-> JsNull,
     refund_recommendation |-> JsNull,
     draft_response |-> EmptyString,
     past_interactions_summary |-> EmptyString,
     order_details_summary |-> EmptyString,
     decision_confidence |-> JsStr(Text(<<"medium">>)),
     escalation_flag |-> JsBool(FALSE)]

Thrown == [t |-> "throw"]

\* Faulty variant: the SyntaxError of JSON.parse is not caught.
parseAgentReportNoCatch(value) ==
    IF value.t = "str"
    THEN (IF JsonParse(value.s).ok
          THEN Obj(ObjectSpread(DEFAULT_REPORT, SpreadOf(JsonParse(value.s).value)))
          ELSE Thrown)
    ELSE IF Truthy(value) /\ value.t = "obj"
    THEN Obj(ObjectSpread(DEFAULT_REPORT, value.f))
    ELSE Obj(DEFAULT_REPORT)

\* Faulty variant: the parsed payload is returned without the defaults.
parseAgentReportNoDefaults(value) ==
    IF value.t = "str"
    THEN (IF JsonParse(value.s).ok
          THEN Obj(SpreadOf(JsonParse(value.s).value))
          ELSE Obj(DEFAULT_REPORT))
    ELSE IF Truthy(value) /\ value.t = "obj"
    THEN Obj(value.f)
    ELSE Obj(DEFAULT_REPORT)

parseAgentReport(value) ==
    IF value.t = "str"
    THEN (IF JsonParse(value.s).ok
          THEN Obj(ObjectSpread(DEFAULT_REPORT, SpreadOf(JsonParse(value.s).value)))
          ELSE Obj(DEFAULT_REPORT))
    ELSE IF Truthy(value) /\ value.t = "obj"
    THEN Obj(ObjectSpread(DEFAULT_REPORT, value.f))
    ELSE Obj(DEFAULT_REPORT)

\* The hash picks one of the ten first and ten last names; all of them are
\* words of letters, shorter than eight characters.
fakeDisplayName(userId) ==
    IF ~Truthy(userId) THEN JsNull
    ELSE JsStr(Text(<<"First", "sp", "Last">>))

MinOf(S) == CHOOSE x \in S : \A y \in S : x <= y

RECURSIVE ReplaceToken(_, _, _)
\* text.replace(/\b<token>\b/gi, by) for a pattern that matches whole tokens
ReplaceToken(w, token, by) ==
    IF w = <<>> THEN <<>>
    ELSE (IF Head(w) = token THEN by ELSE <<Head(w)>>)
           \o ReplaceToken(Tail(w), token, by)

RECURSIVE LeadingSpaces(_)
LeadingSpaces(w) ==
    IF w # <<>> /\ Head(w) = "sp" THEN 1 + LeadingSpaces(Tail(w)) ELSE 0

\* Runs of eight or more hexadecimal digits between word boundaries.
HexRuns == {"hex8", "hex32", "hex40"}

RECURSIVE ReplaceOrderHex(_)
\* text.replace(/\border\s+[0-9a-f]{8,}\b/gi, "order"): the matches are
\* found left to right in the text as it is, the replacement is not scanned
\* again.
ReplaceOrderHex(w) ==
    IF w = <<>> THEN <<>>
    ELSE LET n == LeadingSpaces(Tail(w))
             after == SubSeq(w, n + 2, Len(w))
         IN  IF Head(w) = "order" /\ n >= 1 /\ after # <<>>
                  /\ Head(after) \in HexRuns
             THEN <<"order">> \o ReplaceOrderHex(Tail(after))
             ELSE <<Head(w)>> \o ReplaceOrderHex(Tail(w))

RECURSIVE CollapseSpaces(_)
\* text.replace(/\s{2,}/g, " ")
CollapseSpaces(w) ==
    IF w = <<>> THEN <<>>
    ELSE IF Head(w) = "sp"
    THEN <<"sp">> \o CollapseSpaces(SubSeq(w, LeadingSpaces(w) + 1, Len(w)))
    ELSE <<Head(w)>> \o CollapseSpaces(Tail(w))

\* text.trim()
Trim(w) ==
    LET solid == {i \in 1..Len(w) : w[i] # "sp"}
    IN  IF solid = {} THEN <<>> ELSE SubSeq(w, MinOf(solid), MaxOf(solid))

\* The tokens: "userid" matches user-\d+, "uuid" the UUID pattern, "hex32" is
\* a run of exactly 32 hexadecimal digits between word boundaries, "hex8" a
\* run of eight to 31 and "hex40" a run of more than 32 of them, and
\* "ref_hex32" is a run of exactly 32 behind the word characters ref_, where
\* \b finds no boundary.
sanitizeDraftResponse(draft, userId) ==
    LET base == IF draft.t = "str" THEN draft.s ELSE Text(<<>>)
        displayName == Coalesce(fakeDisplayName(userId), JsStr(Text(<<"there">>)))
    IN  IF base.k # "text" THEN JsStr(base)
        ELSE JsStr(Text(
                 Trim(CollapseSpaces(ReplaceOrderHex(
                     ReplaceToken(
                         ReplaceToken(
                             ReplaceToken(base.w, "userid", displayName.s.w),
                             "uuid", <<"your", "sp", "order">>),
                         "hex32", <<"your", "sp", "order">>))))))

toNullableNumber(value) ==
    IF value.t = "num" THEN value
    ELSE IF value.t = "str" /\ NumberOfString(value.s).t = "num"
    THEN NumberOfString(value.s)
    ELSE JsNull

normalizeRecommendation(value) ==
    IF ~Truthy(value) \/ value.t # "obj" THEN JsNull
    ELSE LET raw == value
             amount ==
                 Coalesce(toNullableNumber(Get(raw, "amount_usd")),
                   Coalesce(toNullableNumber(Get(raw, "amount")),
                     Coalesce(toNullableNumber(Get(raw, "credit_amount")),
                              toNullableNumber(Get(raw, "refund_amount")))))
             reasonCandidates ==
                 <<Get(raw, "reason"), Get(raw, "credit_reason"),
                   Get(raw, "refund_reason")>>
             found == {i \in 1..Len(reasonCandidates) :
                          /\ reasonCandidates[i].t = "str"
                          /\ ~IsBlank(reasonCandidates[i].s)}
             reason == IF found = {} THEN JsUndefined
                       ELSE reasonCandidates[MinOf(found)]
         IN  Obj(ObjectSpread(raw.f,
                 [amount_usd |-> amount,
                  reason |-> Coalesce(reason,
                                 Coalesce(Get(raw, "reason"), EmptyString))]))

normalizeReportForUi(rawReport, userId) ==
    Obj(ObjectSpread(rawReport.f,
        [credit_recommendation |->
             normalizeRecommendation(Get(rawReport, "credit_recommendation")),
         refund_recommendation |->
             normalizeRecommendation(Get(rawReport, "refund_recommendation")),
         draft_response |->
             sanitizeDraftResponse(Get(rawReport, "draft_response"), userId)]))

\* report: normalizeReportForUi(parseAgentReport(agent_response), user_id)
ReportForUi(payload, userId) ==
    LET parsed == parseAgentReport(payload)
    IN  IF parsed = Thrown THEN Thrown ELSE normalizeReportForUi(parsed, userId)

\* POST /regenerate from the text of the serving response to its answer:
\* 201 with the normalized report, or the 500 of withJsonError.
RegenerateAnswer(responseText, userId) ==
    LET normalized == ReportForUi(responseText, userId)
    IN  IF normalized = Thrown THEN [status |-> 500]
        ELSE [status |-> 201, report |-> normalized]

\* An object with the present fields of a record of values.
Present(r) == Obj([k \in {x \in DOMAIN r : r[x] # JsUndefined} |-> r[k]])

AmountValues ==
    {JsUndefined, JsNull, Num(0), Num(500), JsStr(Numeric(1250)),
     EmptyString, JsStr(Text(<<"sp">>)), JsStr(Text(<<"unknown">>))}

ReasonValues ==
    {JsUndefined, JsNull, Num(42), EmptyString, JsStr(Text(<<"sp">>)),
     JsStr(Text(<<"goodwill">>)), JsStr(Text(<<"late">>))}

\* The values a report can carry as a recommendation: objects whose amount
\* fields, or whose reason fields, take every combination of values, and
\* values that are no objects.
RecommendationValues ==
    {Present(r) :
        r \in [amount_usd : AmountValues, amount : AmountValues,
               credit_amount : AmountValues, refund_amount : AmountValues,
               credit_reason : {JsUndefined, JsStr(Text(<<"goodwill">>))}]}
      \cup {Present(r) :
              r \in [reason : ReasonValues, credit_reason : ReasonValues,
                     refund_reason : ReasonValues,
                     amount_usd : {JsUndefined, Num(500)}]}
      \cup {JsNull, JsUndefined, Num(500), JsBool(TRUE), EmptyString,
            JsStr(Text(<<"none">>))}

DraftTokens ==
    {"sp", "order", "hex8", "hex32", "hex40", "ref_hex32", "uuid", "userid",
     "hello"}

\* The texts of up to MaxDraftLen tokens in which whitespace separates the
\* runs of non-whitespace characters.
Drafts ==
    {w \in UNION {[1..n -> DraftTokens] : n \in 0..MaxDraftLen} :
        \A i \in 1..(Len(w) - 1) : w[i] = "sp" \/ w[i + 1] = "sp"}

UserIds == {JsNull, JsStr(Text(<<"userid">>))}

SomeRecommendation ==
    Obj([credit_amount |-> JsStr(Numeric(1250)),
         credit_reason |-> JsStr(Text(<<"goodwill">>))])

\* Report objects: every recognized field absent or present.
ReportObjects ==
    {Present(r) :
        r \in [credit_recommendation : {JsUndefined, JsNull, SomeRecommendation},
               refund_recommendation : {JsUndefined, JsNull, SomeRecommendation},
               draft_response : {JsUndefined, JsNull, JsStr(Text(<<"hello">>))},
               past_interactions_summary : {JsUndefined, JsStr(Text(<<"prior">>))},
               order_details_summary : {JsUndefined, JsStr(Text(<<"late">>))},
               decision_confidence : {JsUndefined, JsStr(Text(<<"high">>))},
               escalation_flag : {JsUndefined, JsBool(TRUE)}]}
      \cup {Obj([draft_response |-> JsStr(Text(w))]) : w \in Drafts}

\* What agent_response can hold: a report object, its JSON text, the JSON
\* text of a value that is no object, text that is no JSON, and values that
\* are neither a string nor an object.
Payloads ==
    ReportObjects
      \cup {JsStr(JsonText(o)) : o \in ReportObjects}
      \cup {JsStr(JsonText(JsNull)), JsStr(JsonText(JsBool(TRUE))),
            JsStr(Numeric(1250))}
      \cup {JsStr(Text(<<"oops">>)), EmptyString, JsStr(Text(<<"sp">>))}
      \cup {JsNull, JsUndefined, Num(500), JsBool(TRUE), JsBool(FALSE)}

ApplyNormalizeRecommendation ==
    /\ call.fn = "normalizeRecommendation" /\ ~call.applied
    /\ call' = Applied(normalizeRecommendation(call.params))
    /\ UNCHANGED cacheVars
    /\ UNCHANGED <<serverVars, consoleVars>>

ApplyReportForUi ==
    /\ call.fn = "ReportForUi" /\ ~call.applied
    /\ call' = Applied(ReportForUi(call.params.agent_response, call.params.user_id))
    /\ UNCHANGED cacheVars
    /\ UNCHANGED <<serverVars, consoleVars>>

ApplySanitizeDraftResponse ==
    /\ call.fn = "sanitizeDraftResponse" /\ ~call.applied
    /\ call' = Applied(sanitizeDraftResponse(call.params.draft, call.params.userId))
    /\ UNCHANGED cacheVars
    /\ UNCHANGED <<serverVars, consoleVars>>

PostRegenerateAnswer ==
    /\ call.fn = "regenerate" /\ ~call.applied
    /\ call' = Applied(RegenerateAnswer(call.params.responseText, call.params.user_id))
    /\ UNCHANGED cacheVars
    /\ UNCHANGED <<serverVars, consoleVars>>

(***************************************************************************)
(* Payload validation of the write routes                                  *)
(***************************************************************************)
Word(token) == JsStr(Text(<<token>>))

WordOf(v) == v.s.w[1]

\* body?.key
FieldOf(body, key) == IF body.t = "obj" THEN Get(body, key) ELSE JsUndefined

\* typeof v === "number"
IsNumber(v) == v.t \in {"num", "nan"}

\* Faulty variant: amount_usd is not looked at.
InvalidActionBodyAmountUnchecked(body) ==
    \/ ~Truthy(FieldOf(body, "support_request_id"))
    \/ ~Truthy(FieldOf(body, "order_id"))
    \/ ~Truthy(FieldOf(body, "action_type"))

\* !body?.support_request_id || !body?.order_id || !body?.action_type ||
\* typeof body.amount_usd !== "number"
InvalidActionBody(body) ==
    \/ ~Truthy(FieldOf(body, "support_request_id"))
    \/ ~Truthy(FieldOf(body, "order_id"))
    \/ ~Truthy(FieldOf(body, "action_type"))
    \/ ~IsNumber(FieldOf(body, "amount_usd"))

\* !body?.support_request_id || !body?.order_id || !body?.message_text
InvalidReplyBody(body) ==
    \/ ~Truthy(FieldOf(body, "support_request_id"))
    \/ ~Truthy(FieldOf(body, "order_id"))
    \/ ~Truthy(FieldOf(body, "message_text"))

\* !body?.support_request_id || !body?.order_id || !body?.rating
InvalidRatingBody(body) ==
    \/ ~Truthy(FieldOf(body, "support_request_id"))
    \/ ~Truthy(FieldOf(body, "order_id"))
    \/ ~Truthy(FieldOf(body, "rating"))

\* body.rating !== "thumbs_up" && body.rating !== "thumbs_down"
InvalidRatingValue(body) ==
    FieldOf(body, "rating") \notin {Word(rating) : rating \in RatingValues}

\* The request bodies a client posts: no body, the valid ones, and the
\* valid ones with one field left out or replaced.
WithField(body, key, v) == Obj([body.f EXCEPT ![key] = v])

Variants(bodies, values) ==
    {JsUndefined} \cup bodies \cup
    {WithField(body, kv[1], kv[2]) :
        body \in bodies,
        kv \in {<<key, v>> : key \in DOMAIN values,
                             v \in {JsUndefined, JsNull, EmptyString}}
                 \cup UNION {{<<key, v>> : v \in values[key]} :
                                key \in DOMAIN values}}

ActionBodies ==
    Variants({Obj([support_request_id |-> Word("uuid"),
                   order_id |-> Word("order"),
                   action_type |-> Word(type),
                   amount_usd |-> Num(5)]) : type \in PostedActionTypes},
             [support_request_id |-> {}, order_id |-> {}, action_type |-> {},
              amount_usd |-> {JsStr(Numeric(5))}])

ReplyBodies ==
    Variants({Obj([support_request_id |-> Word("uuid"),
                   order_id |-> Word("order"),
                   message_text |-> Word("hello")])},
             [support_request_id |-> {}, order_id |-> {}, message_text |-> {}])

RatingBodies ==
    Variants({Obj([support_request_id |-> Word("uuid"),
                   order_id |-> Word("order"),
                   rating |-> Word(rating)]) : rating \in RatingValues},
             [support_request_id |-> {}, order_id |-> {},
              rating |-> {Word("hello")}])

\* res.status(400).json({ error }); return;
Status400(error) ==
    /\ resJson = NoResponse
    /\ resJson' = [kind |-> "error", status |-> 400, error |-> error]
    /\ UNCHANGED <<tables, support_agent_reports_sync, dbNow, requests>>
    /\ UNCHANGED <<cacheVars, call, consoleVars>>

\* POST /actions with any payload.
PostActionsRequest(c, body) ==
    IF InvalidActionBody(body)
    THEN requests[c] = IdleRequest /\ Status400("Invalid payload")
    ELSE PostActions(c, WordOf(FieldOf(body, "action_type")))

\* POST /replies with any payload.
PostRepliesRequest(c, body) ==
    IF InvalidReplyBody(body)
    THEN requests[c] = IdleRequest /\ Status400("Invalid payload")
    ELSE PostReplies(c)

\* POST /ratings with any payload.
PostRatingsRequest(c, body) ==
    IF InvalidRatingBody(body)
    THEN requests[c] = IdleRequest /\ Status400("Invalid payload")
    ELSE IF InvalidRatingValue(body)
    THEN requests[c] = IdleRequest /\ Status400("Invalid rating value")
    ELSE PostRatings(c, WordOf(FieldOf(body, "rating")))

(***************************************************************************)
(* The support console: App.tsx                                            *)
(***************************************************************************)
\* The invocations of async handlers that can be awaiting at one time.
HandlerIds == {"h1", "h2"}

NoHandler ==
    [fn |-> "none", pc |-> "none", action |-> "null", ok |-> FALSE,
     json |-> JsNull]

\* What an operator can have typed into an amount input.
AmountInputs == {"", "5"}

\* The amounts a report recommends, as openDetails writes them to the inputs:
\* String(amount_usd) for a number, "" otherwise.
RecommendedAmounts == {"", "5"}

InitConsole ==
    /\ selected = JsNull
    /\ pendingAction = "null"
    /\ detailsLoading = FALSE
    /\ isDrawerOpen = FALSE
    /\ refundAmount = ""
    /\ creditAmount = ""
    /\ handlers = [h \in HandlerIds |-> NoHandler]

\* selected?.actions.find((a) => a.action_type === "apply_refund")
appliedRefund == selected # JsNull /\ SomeAction(selected.actions, "apply_refund")

appliedCredit == selected # JsNull /\ SomeAction(selected.actions, "apply_credit")

\* {!detailsLoading && selected && (...)} inside the open sheet
DetailsShown == isDrawerOpen /\ ~detailsLoading /\ selected # JsNull

\* Faulty variant: the buttons are disabled while the details load only.
ActionDisabledWhileLoadingOnly == detailsLoading

\* disabled={detailsLoading || pendingAction !== null}
ActionDisabled == detailsLoading \/ pendingAction # "null"

\* disabled={!refundAmount || detailsLoading || Boolean(appliedRefund) ||
\*           pendingAction !== null}
ApplyDisabled(amount, applied) == amount = "" \/ applied \/ ActionDisabled

\* !amount || Number.isNaN(Number(amount))
NotAnAmount(amount) == amount \in {"", "abc"}

FreeHandlers == {h \in HandlerIds : handlers[h] = NoHandler}

\* An invocation of an async handler, up to its first await.
Invoke(fn, pc, action) ==
    /\ FreeHandlers # {}
    /\ LET h == IF "h1" \in FreeHandlers THEN "h1" ELSE "h2"
       IN  handlers' = [handlers EXCEPT ![h] =
               [fn |-> fn, pc |-> pc, action |-> action, ok |-> FALSE,
                json |-> JsNull]]

\* "View & Act" of the list, which the open sheet covers: openDetails up to
\* its fetch.
openDetails ==
    /\ ~isDrawerOpen
    /\ Invoke("openDetails", "get", "null")
    /\ isDrawerOpen' = TRUE
    /\ detailsLoading' = TRUE
    /\ UNCHANGED <<selected, pendingAction, refundAmount, creditAmount>>
    /\ UNCHANGED <<cacheVars, call, serverVars>>

\* onOpenChange={setIsDrawerOpen}
CloseDrawer ==
    /\ isDrawerOpen
    /\ isDrawerOpen' = FALSE
    /\ UNCHANGED <<selected, pendingAction, detailsLoading, refundAmount,
                   creditAmount, handlers>>
    /\ UNCHANGED <<cacheVars, call, serverVars>>

setRefundAmount(value) ==
    /\ DetailsShown
    /\ ~(appliedRefund \/ pendingAction # "null")
    /\ refundAmount' = value
    /\ UNCHANGED <<selected, pendingAction, detailsLoading, isDrawerOpen,
                   creditAmount, handlers>>
    /\ UNCHANGED <<cacheVars, call, serverVars>>

setCreditAmount(value) ==
    /\ DetailsShown
    /\ ~(appliedCredit \/ pendingAction # "null")
    /\ creditAmount' = value
    /\ UNCHANGED <<selected, pendingAction, detailsLoading, isDrawerOpen,
                   refundAmount, handlers>>
    /\ UNCHANGED <<cacheVars, call, serverVars>>

\* A click on "Apply Refund" / "Apply Credit": applyAction up to its fetch.
applyAction(actionType) ==
    LET amount == IF actionType = "apply_refund" THEN refundAmount
                  ELSE creditAmount
        applied == IF actionType = "apply_refund" THEN appliedRefund
                   ELSE appliedCredit
    IN  /\ DetailsShown
        /\ ~ApplyDisabled(amount, applied)
        /\ EventCount < MaxEvents
        /\ IF selected = JsNull \/ NotAnAmount(amount)
           THEN UNCHANGED <<pendingAction, handlers>>
           ELSE /\ pendingAction' = actionType
                /\ Invoke("applyAction", "post", actionType)
        /\ UNCHANGED <<selected, detailsLoading, isDrawerOpen, refundAmount,
                       creditAmount>>
        /\ UNCHANGED <<cacheVars, call, serverVars>>

\* A click on "Reply": sendReply up to its fetch.
sendReply ==
    /\ DetailsShown
    /\ ~ActionDisabled
    /\ EventCount + 1 < MaxEvents
    /\ pendingAction' = "send_reply"
    /\ Invoke("sendReply", "post", "send_reply")
    /\ UNCHANGED <<selected, detailsLoading, isDrawerOpen, refundAmount,
                   creditAmount>>
    /\ UNCHANGED <<cacheVars, call, serverVars>>

\* A click on "Re-generate": regenerateReport up to its fetch.
regenerateReport ==
    /\ DetailsShown
    /\ ~ActionDisabled
    /\ EventCount < MaxEvents
    /\ pendingAction' = "regenerate"
    /\ Invoke("regenerateReport", "post", "regenerate_report")
    /\ UNCHANGED <<selected, detailsLoading, isDrawerOpen, refundAmount,
                   creditAmount>>
    /\ UNCHANGED <<cacheVars, call, serverVars>>

\* A click on "Save Rating": submitRating up to its fetch, with the
\* ratingChoice of the moment.
submitRating(ratingChoice) ==
    /\ DetailsShown
    /\ ~ActionDisabled
    /\ pendingAction' = "rate_response"
    /\ Invoke("submitRating", "post", ratingChoice)
    /\ UNCHANGED <<selected, detailsLoading, isDrawerOpen, refundAmount,
                   creditAmount>>
    /\ UNCHANGED <<cacheVars, call, serverVars>>

Answered(h, pc, ok, json) ==
    handlers' = [handlers EXCEPT ![h].pc = pc, ![h].ok = ok, ![h].json = json]

\* The plugin serves the POST of handler h: its statements in order, all of
\* them (201) or only the first `done` of them before a query rejects (500).
ServePost(h, done) ==
    LET fn == handlers[h].fn
        action == handlers[h].action
        statements == CASE fn = "applyAction" -> 2
                        [] fn = "sendReply" -> 3
                        [] fn = "regenerateReport" -> 2
                        [] OTHER -> 1
        insertsAction ==
            \/ fn = "applyAction" /\ done >= 1
            \/ fn = "sendReply" /\ done >= 2
    IN  /\ handlers[h].pc = "post"
        /\ fn \in {"applyAction", "sendReply", "regenerateReport", "submitRating"}
        /\ done \in 0..statements
        /\ IF insertsAction THEN InsertAction(action)
           ELSE UNCHANGED operator_actions
        /\ support_replies' =
               IF fn = "sendReply" /\ done >= 1
               THEN Append(support_replies,
                           [reply_id |-> Len(support_replies) + 1,
                            created_at |-> dbNow])
               ELSE support_replies
        /\ operator_regenerated_reports' =
               IF fn = "regenerateReport" /\ done >= 1
               THEN Append(operator_regenerated_reports,
                           [regenerated_report_id |->
                                Len(operator_regenerated_reports) + 1,
                            created_at |-> dbNow])
               ELSE operator_regenerated_reports
        /\ response_ratings' =
               IF fn = "submitRating" /\ done >= 1 THEN RatingUpsert(action)
               ELSE response_ratings
        /\ IF fn # "submitRating" /\ done = statements
           THEN UpsertStatus(IF fn = "applyAction" THEN "done"
                             ELSE "in_progress", action)
           ELSE UNCHANGED request_status
        /\ Answered(h, "posted", done = statements, JsNull)
        /\ UNCHANGED <<dbNow, support_agent_reports_sync, requests, resJson>>
        /\ UNCHANGED <<selected, pendingAction, detailsLoading, isDrawerOpen,
                       refundAmount, creditAmount>>
        /\ UNCHANGED <<cacheVars, call>>

\* The plugin serves the GET /requests/:id of handler h, or fails to.
ServeGet(h, ok) ==
    /\ handlers[h].pc = "get"
    /\ Answered(h, "got", ok,
                IF ok THEN [actions |-> ActionTypesRead] ELSE JsNull)
    /\ UNCHANGED <<selected, pendingAction, detailsLoading, isDrawerOpen,
                   refundAmount, creditAmount>>
    /\ UNCHANGED <<cacheVars, call, serverVars>>

\* An operator handler resumes from its fetch: on !res.ok it throws, reports
\* the error and clears pendingAction; otherwise it calls openDetails with
\* showLoading false.
PostAnswered(h) ==
    /\ handlers[h].pc = "posted"
    /\ IF handlers[h].ok
       THEN /\ handlers' = [handlers EXCEPT ![h].pc = "get", ![h].ok = FALSE]
            /\ isDrawerOpen' = TRUE
            /\ UNCHANGED pendingAction
       ELSE /\ handlers' = [handlers EXCEPT ![h] = NoHandler]
            /\ pendingAction' = "null"
            /\ UNCHANGED isDrawerOpen
    /\ UNCHANGED <<selected, detailsLoading, refundAmount, creditAmount>>
    /\ UNCHANGED <<cacheVars, call, serverVars>>

\* openDetails resumes from its fetch: it stores the details and fills the
\* amount inputs with what the report in them recommends, or catches the
\* failure and returns false. Called from the list it clears detailsLoading;
\* an operator handler goes on to refresh().
DetailsAnswered(h, refund, credit) ==
    /\ handlers[h].pc = "got"
    /\ IF handlers[h].ok
       THEN /\ selected' = handlers[h].json
            /\ refundAmount' = refund
            /\ creditAmount' = credit
       ELSE UNCHANGED <<selected, refundAmount, creditAmount>>
    /\ IF handlers[h].fn = "openDetails"
       THEN /\ detailsLoading' = FALSE
            /\ handlers' = [handlers EXCEPT ![h] = NoHandler]
       ELSE /\ UNCHANGED detailsLoading
            /\ handlers' = [handlers EXCEPT ![h].pc = "refresh",
                                            ![h].ok = FALSE, ![h].json = JsNull]
    /\ UNCHANGED <<pendingAction, isDrawerOpen>>
    /\ UNCHANGED <<cacheVars, call, serverVars>>

\* refresh() of an operator handler has returned; finally:
\* setPendingAction(null).
RefreshDone(h) ==
    /\ handlers[h].pc = "refresh"
    /\ handlers' = [handlers EXCEPT ![h] = NoHandler]
    /\ pendingAction' = "null"
    /\ UNCHANGED <<selected, detailsLoading, isDrawerOpen, refundAmount,
                   creditAmount>>
    /\ UNCHANGED <<cacheVars, call, serverVars>>

(***************************************************************************)
(* Specifications                                                          *)
(***************************************************************************)
vars ==
    <<now, cached, refreshPromise, promises, callers, call, dbNow,
      support_agent_reports_sync, operator_actions, support_replies,
      operator_regenerated_reports, response_ratings, request_status,
      requests, resJson, selected, pendingAction, detailsLoading,
      isDrawerOpen, refundAmount, creditAmount, handlers>>

\* The credential cache under concurrent callers.
Init == InitCache /\ InitServer /\ InitConsole /\ call = NoCall

Next ==
    \/ \E c \in Callers : GetToken(c)
    \/ \E p \in 1..MaxFetches : \E response \in Responses(p) : RefreshSettles(p, response)
    \/ \E c \in Callers : CallerResumes(c)
    \/ Tick

Spec == Init /\ [][Next]_vars

\* The derivation functions applied to every input of the bounded domains.
InitDerive ==
    /\ InitCache
    /\ InitServer
    /\ InitConsole
    /\ call \in {Pending("deriveCaseStatus", params) : params \in StatusParams}
          \cup {Pending("deriveNextAction", params) : params \in NextActionParams}
          \cup {Pending("detailCaseState", rows) : rows \in CaseRows}
          \cup {Pending("normalizeRecommendation", value) :
                   value \in RecommendationValues}
          \cup {Pending("ReportForUi", params) :
                   params \in [agent_response : Payloads, user_id : UserIds]}
          \cup {Pending("sanitizeDraftResponse", params) :
                   params \in [draft : {JsStr(Text(w)) : w \in Drafts},
                               userId : UserIds]}
          \cup {Pending("regenerate", params) :
                   params \in [responseText :
                                  {p \in Payloads : p.t = "str" /\ ~IsBlank(p.s)},
                               user_id : UserIds]}

NextDerive ==
    \/ ApplyDeriveCaseStatus
    \/ ApplyDeriveNextAction
    \/ GetRequestDetail
    \/ ApplyNormalizeRecommendation
    \/ ApplyReportForUi
    \/ ApplySanitizeDraftResponse
    \/ PostRegenerateAnswer

SpecDerive == InitDerive /\ [][NextDerive]_vars

\* The handlers of the support plugin serving concurrent requests on one case.
InitTables == InitCache /\ InitServer /\ InitConsole /\ call = NoCall

NextTables ==
    \/ GetRequests
    \/ GetRequestsById
    \/ ResponseSent
    \/ \E c \in Clients : \E type \in PostedActionTypes : PostActions(c, type)
    \/ \E c \in Clients : PostActionsStatus(c)
    \/ \E c \in Clients : PostReplies(c)
    \/ \E c \in Clients : PostRepliesAction(c)
    \/ \E c \in Clients : PostRepliesStatus(c)
    \/ \E c \in Clients : \E rating \in RatingValues : PostRatings(c, rating)
    \/ \E c \in Clients : PostRegenerate(c)
    \/ \E c \in Clients : PostRegenerateStatus(c)
    \/ \E c \in Clients : QueryFails(c)
    \/ TickDb

SpecTables == InitTables /\ [][NextTables]_vars

\* The same handlers on a case whose request_status row holds the status
\* blocked: the plugin never writes that value, it reads it from a row that
\* another writer of the table left.
InitBlocked ==
    /\ InitCache
    /\ InitConsole
    /\ call = NoCall
    /\ dbNow = 1
    /\ support_agent_reports_sync = <<[ts |-> 0]>>
    /\ operator_actions = <<>>
    /\ support_replies = <<>>
    /\ operator_regenerated_reports = <<>>
    /\ response_ratings = <<>>
    /\ request_status =
           <<[status |-> "blocked", last_action |-> "null", updated_at |-> 0]>>
    /\ requests = [c \in Clients |-> IdleRequest]
    /\ resJson = NoResponse

SpecBlocked == InitBlocked /\ [][NextTables]_vars

\* One operator at the console, and the plugin serving its requests.
NextConsole ==
    \/ openDetails
    \/ CloseDrawer
    \/ \E value \in AmountInputs : setRefundAmount(value)
    \/ \E value \in AmountInputs : setCreditAmount(value)
    \/ \E actionType \in PostedActionTypes : applyAction(actionType)
    \/ sendReply
    \/ regenerateReport
    \/ \E ratingChoice \in RatingValues : submitRating(ratingChoice)
    \/ \E h \in HandlerIds : \E done \in 0..3 : ServePost(h, done)
    \/ \E h \in HandlerIds : \E ok \in BOOLEAN : ServeGet(h, ok)
    \/ \E h \in HandlerIds : PostAnswered(h)
    \/ \E h \in HandlerIds :
          \E refund \in RecommendedAmounts : \E credit \in RecommendedAmounts :
             DetailsAnswered(h, refund, credit)
    \/ \E h \in HandlerIds : RefreshDone(h)

SpecConsole == Init /\ [][NextConsole]_vars

\* The write routes of the plugin under any payload, within one instant of
\* the database clock.
NextWrites ==
    \/ \E c \in Clients : \E body \in ActionBodies : PostActionsRequest(c, body)
    \/ \E c \in Clients : PostActionsStatus(c)
    \/ \E c \in Clients : \E body \in ReplyBodies : PostRepliesRequest(c, body)
    \/ \E c \in Clients : PostRepliesAction(c)
    \/ \E c \in Clients : PostRepliesStatus(c)
    \/ \E c \in Clients : \E body \in RatingBodies : PostRatingsRequest(c, body)
    \/ \E c \in Clients : QueryFails(c)
    \/ ResponseSent

SpecWrites == InitTables /\ [][NextWrites]_vars

(***************************************************************************)
(* Properties of the credential cache                                      *)
(***************************************************************************)
PendingFetches == {p \in 1..Len(promises) : promises[p].status = "pending"}

\* Caller c executes one call of getToken() in this step.
CallStep(c) ==
    /\ callers[c].pc # "awaiting"
    /\ callers'[c] # callers[c]

\* Caller c's await of a refresh promise resumes in this step.
ResumeStep(c) ==
    /\ callers[c].pc = "awaiting"
    /\ callers'[c].pc = "returned"

\* A refresh settles in this step, with a rejection / with a value.
RejectStep ==
    \E p \in 1..Len(promises) :
        promises[p].status = "pending" /\ promises'[p].status = "rejected"

FulfilStep ==
    \E p \in 1..Len(promises) :
        promises[p].status = "pending" /\ promises'[p].status = "fulfilled"

\* now < expiresAt - bufferDuration, for an entry with a finite expiry
BeforeBufferedExpiry(entry, t) ==
    entry.expiresAt.t = "num" /\ t < entry.expiresAt.n - CACHE_BUFFER_MS

\* C1: in every reachable state at most one invocation of the fetch
\* function is outstanding, whatever the interleaving of callers and fetch
\* completions.
C1_SingleFlight == Cardinality(PendingFetches) <= 1

C1_Witness ==
    /\ Cardinality(PendingFetches) = 1
    /\ \E c, d \in Callers :
        /\ c # d
        /\ callers[c].pc = "awaiting" /\ callers[d].pc = "awaiting"
        /\ callers[c].promise = callers[d].promise
        /\ callers[c].promise \in PendingFetches

\* C2: the calls issued while no cached entry exists and before the first
\* fetch completes cause exactly one fetch invocation, and when it succeeds
\* each of those callers receives the token that fetch returned.
C2_FirstFetchShared ==
    /\ [](/\ ((\E c \in Callers : callers[c].early)
                 /\ PendingFetches = 1..Len(promises)) => Len(promises) = 1
          /\ \A c \in Callers : callers[c].early => callers[c].promise = 1)
    /\ [][ \A c \in Callers :
             (ResumeStep(c) /\ callers[c].early /\ promises[1].status = "fulfilled")
               => /\ callers'[c].outcome = "token"
                  /\ callers'[c].token = promises[1].entry.token
                  /\ \A d \in Callers :
                       (callers[d].early /\ callers[d].pc = "returned")
                         => callers[d].token = callers'[c].token ]_vars

C2_Witness ==
    /\ Len(promises) >= 1
    /\ promises[1].status = "fulfilled"
    /\ \E c, d \in Callers :
        /\ c # d
        /\ callers[c].early /\ callers[d].early
        /\ callers[c].pc = "returned" /\ callers[d].pc = "returned"
        /\ callers[c].outcome = "token"
        /\ callers[c].token = callers[d].token

\* C3: a failed refresh leaves the cached entry exactly as it was (absent
\* stays absent, a stale entry stays that stale entry), and the next
\* getToken() call after the failure invokes fetch again.
C3_FailureLeavesCache ==
    [][ /\ RejectStep => (cached' = cached /\ ~BeforeBufferedExpiry(cached', now'))
        /\ \A c \in Callers :
             ( /\ Len(promises) > 0
               /\ promises[Len(promises)].status = "rejected"
               /\ CallStep(c) )
             => ( /\ Len(promises') = Len(promises) + 1
                  /\ promises'[Len(promises')].status = "pending"
                  /\ callers'[c].promise = Len(promises') ) ]_vars

C3_Witness ==
    /\ Len(promises) >= 3
    /\ promises[1].status = "fulfilled"
    /\ promises[2].status = "rejected"
    /\ promises[3].status = "pending"
    /\ cached # NoEntry

\* C4: every caller that awaited a shared refresh observes that refresh's
\* outcome: the failure when it failed (never a token, in particular not
\* the stale cached one), the new token when it succeeded; the callers that
\* shared one refresh all observe the same outcome.
C4_SharedOutcome ==
    [][ \A c \in Callers :
          ResumeStep(c) =>
            LET p == promises[callers[c].promise] IN
            /\ p.status = "rejected" =>
                 (callers'[c].outcome = "error" /\ callers'[c].token = NoToken)
            /\ p.status = "fulfilled" =>
                 (callers'[c].outcome = "token" /\ callers'[c].token = p.entry.token)
            /\ \A d \in Callers :
                 (callers[d].pc = "returned" /\ callers[d].promise = callers[c].promise)
                   => /\ callers[d].outcome = callers'[c].outcome
                      /\ callers[d].token = callers'[c].token ]_vars

C4_Witness ==
    /\ cached # NoEntry
    /\ \E c, d \in Callers :
        /\ c # d
        /\ callers[c].pc = "returned" /\ callers[d].pc = "returned"
        /\ callers[c].promise = callers[d].promise
        /\ callers[c].promise # 0
        /\ promises[callers[c].promise].status = "rejected"
        /\ callers[c].outcome = "error" /\ callers[d].outcome = "error"

\* C5: with token T of expiry E cached, a getToken() call at now < E - B
\* returns T without invoking fetch, and a call at now >= E - B made while
\* no refresh is in flight starts exactly one new fetch.
C5_BufferedExpiryBoundary ==
    [][ \A c \in Callers :
          (CallStep(c) /\ cached # NoEntry /\ cached.expiresAt.t = "num") =>
            /\ now < cached.expiresAt.n - CACHE_BUFFER_MS =>
                 /\ callers'[c].pc = "returned"
                 /\ callers'[c].outcome = "token"
                 /\ callers'[c].token = cached.token
                 /\ promises' = promises
            /\ (now >= cached.expiresAt.n - CACHE_BUFFER_MS /\ PendingFetches = {}) =>
                 /\ Len(promises') = Len(promises) + 1
                 /\ callers'[c].pc = "awaiting"
                 /\ callers'[c].promise = Len(promises') ]_vars

C5_Witness ==
    /\ cached # NoEntry
    /\ cached.expiresAt.t = "num"
    /\ now = cached.expiresAt.n - CACHE_BUFFER_MS
    /\ \E c, d \in Callers :
        /\ callers[c].pc = "returned" /\ callers[c].promise = 0
        /\ callers[c].token = cached.token
        /\ callers[d].pc = "awaiting" /\ callers[d].promise \in PendingFetches
        /\ callers[d].promise > 1

\* C6 as claimed: whenever getToken() hands a token to a caller at time
\* now, from the cache or from a refresh the caller awaited, the token's
\* entry satisfies now < expiresAt - bufferDuration.
C6_EveryReturnBeforeBufferedExpiry ==
    [][ \A c \in Callers :
          /\ (CallStep(c) /\ callers'[c].pc = "returned")
                => BeforeBufferedExpiry(cached, now)
          /\ (ResumeStep(c) /\ callers'[c].outcome = "token")
                => BeforeBufferedExpiry(promises[callers[c].promise].entry, now) ]_vars

\* C6 amended: whenever getToken() returns a token from the cache, without
\* awaiting a refresh, now < expiresAt - bufferDuration holds of the cached
\* entry.
C6_CacheReturnBeforeBufferedExpiry ==
    [][ \A c \in Callers :
          (CallStep(c) /\ callers'[c].pc = "returned")
             => ( /\ BeforeBufferedExpiry(cached, now)
                  /\ callers'[c].token = cached.token ) ]_vars

C6_Witness ==
    /\ now > 0
    /\ \E c \in Callers :
        /\ callers[c].pc = "returned" /\ callers[c].promise = 0
        /\ callers[c].token = cached.token
        /\ BeforeBufferedExpiry(cached, now)
        /\ ~BeforeBufferedExpiry(cached, now + 1)

\* C7: when a refresh completes, with success or failure, the in-flight
\* marker is cleared, and a later getToken() call that finds no fresh entry
\* awaits a newly started fetch, never the finished one.
C7_MarkerCleared ==
    [][ /\ (RejectStep \/ FulfilStep) => refreshPromise' = 0
        /\ \A c \in Callers :
             (CallStep(c) /\ callers'[c].pc = "awaiting") =>
                /\ promises'[callers'[c].promise].status = "pending"
                /\ PendingFetches = {} =>
                     (callers'[c].promise = Len(promises) + 1
                        /\ Len(promises') = Len(promises) + 1) ]_vars

C7_Witness ==
    /\ Len(promises) >= 3
    /\ promises[1].status = "rejected"
    /\ promises[2].status = "fulfilled"
    /\ refreshPromise = 3
    /\ \E c \in Callers : callers[c].pc = "awaiting" /\ callers[c].promise = 3

(***************************************************************************)
(* Properties of the case-state derivation                                 *)
(***************************************************************************)
AppliedCall(fn) == call.fn = fn /\ call.applied

\* The count a parameter stands for: a missing count is zero.
CountOf(v) == IF v.t = "num" THEN v.n ELSE 0

\* C8: status derivation follows the priority order for every combination
\* of inputs: stored blocked gives blocked whatever the counts and the
\* refund/credit actions; otherwise a refund action, a credit action or
\* stored done gives done; otherwise a positive sum of the action, reply
\* and regeneration counts or stored in_progress gives in_progress;
\* otherwise pending.
C8_StatusPriorityOrder ==
    /\ AppliedCall("deriveCaseStatus") =>
         LET in == call.params
             blocked == in.status = JsStr("blocked")
             done == \/ in.hasRefund = JsBool(TRUE)
                     \/ in.hasCredit = JsBool(TRUE)
                     \/ in.status = JsStr("done")
             active == \/ CountOf(in.actionCount) + CountOf(in.replyCount)
                            + CountOf(in.regenCount) > 0
                       \/ in.status = JsStr("in_progress")
         IN  /\ blocked => call.result = "blocked"
             /\ (~blocked /\ done) => call.result = "done"
             /\ (~blocked /\ ~done /\ active) => call.result = "in_progress"
             /\ (~blocked /\ ~done /\ ~active) => call.result = "pending"
    /\ AppliedCall("detailCaseState") =>
         LET in == call.params
             blocked == in.status = JsStr("blocked")
             done == \/ \E i \in DOMAIN in.actions :
                           in.actions[i] \in {"apply_refund", "apply_credit"}
                     \/ in.status = JsStr("done")
             active == \/ Len(in.actions) + in.replies + in.regenerations > 0
                       \/ in.status = JsStr("in_progress")
         IN  call.result.case_status =
                 IF blocked THEN "blocked"
                 ELSE IF done THEN "done"
                 ELSE IF active THEN "in_progress"
                 ELSE "pending"

C8_Witness ==
    /\ AppliedCall("deriveCaseStatus")
    /\ call.params.status = JsStr("blocked")
    /\ call.params.hasRefund = JsBool(TRUE)
    /\ call.params.actionCount = Num(MaxCount)
    /\ call.result = "blocked"

\* C9: next-action derivation equals the decision table for every status
\* and every combination of has_reply, has_refund, has_credit; in
\* particular actions=[apply_refund] alone gives done/send_customer_reply
\* and all-empty input gives pending/review_report.
C9_NextActionTable ==
    /\ AppliedCall("deriveNextAction") =>
         LET in == call.params
             money == in.hasRefund \/ in.hasCredit
         IN  call.result =
               CASE in.caseStatus = "pending" -> "review_report"
                 [] in.caseStatus = "blocked" -> "investigate_blocker"
                 [] in.caseStatus = "done" /\ in.hasReply -> "monitor"
                 [] in.caseStatus = "done" /\ ~in.hasReply -> "send_customer_reply"
                 [] in.caseStatus = "in_progress" /\ in.hasReply /\ ~money
                      -> "apply_resolution_or_regenerate"
                 [] in.caseStatus = "in_progress" /\ ~in.hasReply /\ money
                      -> "send_customer_reply"
                 [] in.caseStatus = "in_progress" /\ (in.hasReply <=> money)
                      -> "continue_investigation"
    /\ ( /\ AppliedCall("detailCaseState")
         /\ call.params = [actions |-> <<"apply_refund">>, replies |-> 0,
                           regenerations |-> 0, status |-> JsNull] )
         => ( /\ call.result.case_status = "done"
              /\ call.result.next_action = "send_customer_reply" )
    /\ ( /\ AppliedCall("detailCaseState")
         /\ call.params = [actions |-> <<>>, replies |-> 0,
                           regenerations |-> 0, status |-> JsNull] )
         => ( /\ call.result.case_status = "pending"
              /\ call.result.next_action = "review_report" )

C9_Witness ==
    /\ AppliedCall("deriveNextAction")
    /\ call.params = [caseStatus |-> "in_progress", hasReply |-> TRUE,
                      hasRefund |-> TRUE, hasCredit |-> FALSE]
    /\ call.result = "continue_investigation"

OneReplyOnly ==
    [actions |-> <<>>, replies |-> 1, regenerations |-> 0, status |-> JsNull]

\* C10 as claimed: actions=[], replies=[one reply], regenerations=[] and no
\* stored status give in_progress with has_reply=true, has_refund=false and
\* next_action continue_investigation.
C10_OneReplyContinueInvestigation ==
    (AppliedCall("detailCaseState") /\ call.params = OneReplyOnly) =>
        /\ call.result.case_status = "in_progress"
        /\ call.result.has_reply = TRUE
        /\ call.result.has_refund = FALSE
        /\ call.result.next_action = "continue_investigation"

\* C10 amended: the same input gives in_progress with has_reply=true,
\* has_refund=false and next_action apply_resolution_or_regenerate, the
\* table's row for in_progress with a reply and no refund or credit.
C10_OneReplyApplyResolution ==
    (AppliedCall("detailCaseState") /\ call.params = OneReplyOnly) =>
        /\ call.result.case_status = "in_progress"
        /\ call.result.has_reply = TRUE
        /\ call.result.has_refund = FALSE
        /\ call.result.next_action = "apply_resolution_or_regenerate"

C10_Witness ==
    /\ AppliedCall("detailCaseState")
    /\ call.params = OneReplyOnly
    /\ call.result.next_action = "apply_resolution_or_regenerate"

(***************************************************************************)
(* Properties of the timeline and the event tables                         *)
(***************************************************************************)
\* GET /requests/:id has computed its body from the tables as they are.
DetailSent == resJson.kind = "detail"

\* GET /requests has computed its body from the tables as they are.
ListSent == resJson.kind = "list"

RowsOf(table) == {table[i] : i \in 1..Len(table)}

\* The rows of the source collections next to the report record.
SourceRows ==
    RowsOf(operator_regenerated_reports) \cup RowsOf(support_replies)
      \cup RowsOf(operator_actions) \cup RowsOf(response_ratings)

\* The timeline holds one event of the report record and one event of
\* every regeneration, reply, action and rating row, and nothing else.
OneEventPerRow(timeline) ==
    /\ Cardinality({i \in 1..Len(timeline) :
                       timeline[i].event_type = "report_generated"}) = 1
    /\ \A row \in SourceRows :
          Cardinality({i \in 1..Len(timeline) : timeline[i].details = row}) = 1
    /\ Len(timeline) = 1 + Cardinality(SourceRows)

\* Each event's timestamp is at least that of the event after it.
NewestEventFirst(timeline) ==
    \A i \in 1..(Len(timeline) - 1) :
        timeline[i].event_at >= timeline[i + 1].event_at

\* C11: the merged timeline of a case contains exactly one event per row of
\* each source collection (the report-generation record, every
\* regeneration, every reply, every action, every rating) and nothing else,
\* and is ordered by timestamp descending: each event's timestamp is at
\* least that of the event after it.
C11_TimelineOneEventPerRowNewestFirst ==
    DetailSent =>
        /\ OneEventPerRow(resJson.timeline)
        /\ NewestEventFirst(resJson.timeline)

\* The part of C11 that the handler keeps: one event per row, nothing else.
C11_TimelineOneEventPerRow ==
    DetailSent => OneEventPerRow(resJson.timeline)

\* The latest instant recorded for the case: the maximum over the report,
\* the action, reply, regeneration and rating rows and the update time of
\* the stored status record.
LatestTimestamp ==
    MaxOf({support_agent_reports_sync[i].ts :
             i \in 1..Len(support_agent_reports_sync)}
            \cup CreatedAt(operator_regenerated_reports)
            \cup CreatedAt(support_replies)
            \cup CreatedAt(operator_actions)
            \cup CreatedAt(response_ratings)
            \cup {request_status[i].updated_at : i \in 1..Len(request_status)})

\* C12: the last-event timestamp reported in a case's summary, in the list
\* view and in the detail view, equals the maximum timestamp over all
\* source collections (report, actions, replies, regenerations, ratings)
\* and the stored status record's update time.
C12_LastEventAtIsMaximum ==
    (DetailSent \/ ListSent) =>
        resJson.case_state.last_event_at = LatestTimestamp

GetStep == resJson = NoResponse /\ resJson' # NoResponse

\* C19: GET /requests and GET /requests/:id are side-effect-free: they
\* leave the action, reply, regeneration and rating tables and the stored
\* status record exactly as they were immediately before the request.
C19_GetLeavesTablesUnchanged ==
    [][GetStep => UNCHANGED tables]_vars

C19_Witness ==
    /\ DetailSent
    /\ operator_actions # <<>>
    /\ response_ratings # <<>>
    /\ request_status # <<>>

\* Every row of the table before the step is in its place after the step,
\* with the same content and timestamp.
RowsKept(before, after) ==
    /\ Len(after) >= Len(before)
    /\ \A i \in 1..Len(before) : after[i] = before[i]

NoneInFlight == \A c \in Clients : requests[c] = IdleRequest

\* The case_status derived from the given rows.
DerivedStatusOf(actions, replies, regens, status) ==
    deriveCaseStatus(
        [status |-> IF status = <<>> THEN JsNull ELSE JsStr(status[1].status),
         hasRefund |-> JsBool(\E i \in 1..Len(actions) :
                                  actions[i].action_type = "apply_refund"),
         hasCredit |-> JsBool(\E i \in 1..Len(actions) :
                                  actions[i].action_type = "apply_credit"),
         actionCount |-> Num(Len(actions)),
         replyCount |-> Num(Len(replies)),
         regenCount |-> Num(Len(regens))])

\* The case_status both GET handlers derive from the tables as they are.
DerivedStatus ==
    DerivedStatusOf(operator_actions, support_replies,
                    operator_regenerated_reports, request_status)

HasResolution ==
    \E i \in 1..Len(operator_actions) :
        operator_actions[i].action_type \in {"apply_refund", "apply_credit"}

C23_BlockedKeepsDominating == DerivedStatus = "blocked"

\* What holds instead: the derived status is blocked for as long as no
\* handler has run its status upsert, whatever event rows were inserted.
C23_BlockedUntilStatusUpsert ==
    (request_status[1].status = "blocked") => DerivedStatus = "blocked"

\* pending < in_progress < done
StatusRank(status) ==
    CASE status = "pending" -> 0
      [] status = "in_progress" -> 1
      [] status = "done" -> 2
      [] OTHER -> 3

\* C24: starting from a case with no stored status, under any sequence of
\* POST /actions, POST /replies, POST /regenerate and POST /ratings the
\* derived case_status never moves to a lower-priority value (pending <
\* in_progress < done), and once a refund or credit has been recorded it
\* stays done, also after later replies or regenerations overwrite the
\* stored status.
C24_DerivedStatusNeverLowers ==
    [][LET before == DerivedStatusOf(operator_actions, support_replies,
                                     operator_regenerated_reports,
                                     request_status)
           after == DerivedStatusOf(operator_actions', support_replies',
                                    operator_regenerated_reports',
                                    request_status')
       IN  \/ UNCHANGED <<operator_actions, support_replies,
                          operator_regenerated_reports, request_status>>
           \/ /\ StatusRank(after) >= StatusRank(before)
              /\ HasResolution => before = "done" /\ after = "done"]_vars

\* A reply or regeneration has overwritten the stored status of a case with
\* a refund or credit.
C24_Witness ==
    /\ HasResolution
    /\ Len(support_replies) + Len(operator_regenerated_reports) > 0
    /\ request_status # <<>>
    /\ request_status[1].status = "in_progress"
    /\ request_status[1].last_action \in {"send_reply", "regenerate_report"}
    /\ DerivedStatus = "done"

DerivedFields ==
    {"case_status", "next_action", "has_reply", "has_refund", "has_credit",
     "action_count", "reply_count", "regen_count"}

LastEventFields == {"last_action_type", "last_event_at"}

FieldsAgree(fields) ==
    \A f \in fields : ListResponse.case_state[f] = DetailResponse.case_state[f]

\* C25: for the same stored rows of a case, GET /requests and GET
\* /requests/:id report the same case_state: equal case_status, next_action,
\* has_reply, has_refund, has_credit, the three counts, last_action_type
\* and last_event_at.
C25_ListAndDetailAgree == FieldsAgree(DerivedFields \cup LastEventFields)

\* The part of C25 the two handlers keep: status, next action, flags and
\* counts agree.
C25_DerivedFieldsAgree == FieldsAgree(DerivedFields)

SendReplyActions ==
    {i \in 1..Len(operator_actions) :
        operator_actions[i].action_type = "send_reply"}

\* C26: POST /replies is all-or-nothing: in every reachable state,
\* including between its three writes and after one of them failed, the
\* number of reply rows equals the number of send_reply action rows, so a
\* request that ends in an error leaves the tables as they were.
C26_RepliesAllOrNothing ==
    Len(support_replies) = Cardinality(SendReplyActions)

\* The same once every request has been answered: a failed second or third
\* write leaves the rows already written.
C26_NoPartialReplyAfterError ==
    NoneInFlight => Len(support_replies) = Cardinality(SendReplyActions)

\* What the handler's order of writes does give: a send_reply action row is
\* written after its reply row.
C26_ActionRowAfterReplyRow ==
    Cardinality(SendReplyActions) <= Len(support_replies)

\* C28: when deriveCaseStatus and then deriveNextAction are derived
\* together from the same inputs, as the handlers do, next_action is
\* send_customer_reply only with case_status done and has_reply false, and
\* continue_investigation only with case_status in_progress, has_reply
\* false and neither a refund nor a credit.
C28_NextActionOfDerivedStatus ==
    AppliedCall("detailCaseState") =>
        LET state == call.result IN
        /\ state.next_action = "send_customer_reply" =>
              state.case_status = "done" /\ ~state.has_reply
        /\ state.next_action = "continue_investigation" =>
              /\ state.case_status = "in_progress"
              /\ ~state.has_reply
              /\ ~state.has_refund /\ ~state.has_credit

\* A refund under a stored in_progress, no reply: the in_progress row that
\* asks for a reply is not reached, the case is done.
C28_Witness ==
    /\ AppliedCall("detailCaseState")
    /\ call.params.status = JsStr("in_progress")
    /\ SomeAction(call.params.actions, "apply_refund")
    /\ call.params.replies = 0
    /\ call.result.case_status = "done"
    /\ call.result.next_action = "send_customer_reply"

\* A regeneration only: in_progress, investigation continues.
C28_WitnessInvestigation ==
    /\ AppliedCall("detailCaseState")
    /\ call.params.regenerations > 0
    /\ call.result.case_status = "in_progress"
    /\ call.result.next_action = "continue_investigation"

\* A field the claim calls missing: absent or null.
Missing(body, key) == FieldOf(body, key).t \in {"undefined", "null"}

\* The step answers 400 and writes nothing.
RejectedStep ==
    /\ resJson = NoResponse
    /\ resJson'.kind = "error" /\ resJson'.status = 400
    /\ UNCHANGED tables

ActionRows(type) ==
    {i \in 1..Len(operator_actions) : operator_actions[i].action_type = type}

\* C27: through the console a case never receives a second apply_refund,
\* nor a second apply_credit: once one is recorded for the selected case,
\* applyAction cannot post another, in every interleaving of handler
\* completions, including when the detail reload after a successful apply
\* fails.
C27_AtMostOneRefundAndCredit ==
    /\ Cardinality(ActionRows("apply_refund")) <= 1
    /\ Cardinality(ActionRows("apply_credit")) <= 1

\* What the disabled buttons do give: applyAction is not invoked for a
\* resolution that the details on display list.
C27_NoApplyOfDisplayedResolution ==
    [][\A h \in HandlerIds :
          (handlers[h] = NoHandler /\ handlers'[h].fn = "applyAction") =>
              ~SomeAction(selected.actions, handlers'[h].action)]_vars

OperatorHandlers ==
    {h \in HandlerIds : handlers[h].fn \notin {"none", "openDetails"}}

PendingActionOf(h) ==
    CASE handlers[h].fn = "applyAction" -> handlers[h].action
      [] handlers[h].fn = "sendReply" -> "send_reply"
      [] handlers[h].fn = "regenerateReport" -> "regenerate"
      [] handlers[h].fn = "submitRating" -> "rate_response"

\* C29: in the console at most one operator action (refund, credit, reply,
\* regenerate, rating) is in flight at any time, and after each handler
\* finishes, in success or in failure, pendingAction is null again.
C29_OneOperatorActionInFlight ==
    /\ Cardinality(OperatorHandlers) <= 1
    /\ \A h \in OperatorHandlers : pendingAction = PendingActionOf(h)
    /\ OperatorHandlers = {} => pendingAction = "null"

\* A refund has gone through and a reply has failed; both handlers have
\* finished.
C29_Witness ==
    /\ OperatorHandlers = {}
    /\ pendingAction = "null"
    /\ ActionRows("apply_refund") # {}
    /\ Len(support_replies) > Cardinality(ActionRows("send_reply"))

(***************************************************************************)
(* Properties of the report normalization                                  *)
(***************************************************************************)
AmountCandidates(o) ==
    <<Get(o, "amount_usd"), Get(o, "amount"), Get(o, "credit_amount"),
      Get(o, "refund_amount")>>

ReasonCandidates(o) ==
    <<Get(o, "reason"), Get(o, "credit_reason"), Get(o, "refund_reason")>>

\* A finite number, or a string that is not empty and reads as one.
NonEmptyCoercible(v) ==
    \/ v.t = "num"
    \/ v.t = "str" /\ v.s # Text(<<>>) /\ NumberOfString(v.s).t = "num"

NumberOf(v) == IF v.t = "num" THEN v ELSE NumberOfString(v.s)

\* The first candidate, in order, that is non-empty and coercible to a
\* finite number; null when there is none.
FirstCoercibleAmount(o) ==
    LET c == AmountCandidates(o)
        ok == {i \in 1..Len(c) : NonEmptyCoercible(c[i])}
    IN  IF ok = {} THEN JsNull ELSE NumberOf(c[MinOf(ok)])

NonEmptyString(v) == v.t = "str" /\ v.s # Text(<<>>)

\* The first candidate, in order, that is a non-empty string; the empty
\* string when there is none.
FirstNonEmptyReason(o) ==
    LET c == ReasonCandidates(o)
        ok == {i \in 1..Len(c) : NonEmptyString(c[i])}
    IN  IF ok = {} THEN EmptyString ELSE c[MinOf(ok)]

NormalizedObject ==
    /\ AppliedCall("normalizeRecommendation")
    /\ call.params.t = "obj"

\* C14: amount normalization selects the first candidate field, in the
\* order amount_usd, amount, credit_amount, refund_amount, whose value is
\* non-empty and coercible to a finite number; when no candidate is, the
\* normalized amount is null, never zero.  The recommendation
\* {credit_amount: "12.50", credit_reason: "goodwill"} normalizes to amount
\* 12.50 and reason "goodwill".
C14_FirstCoercibleAmount ==
    /\ NormalizedObject =>
          call.result.f.amount_usd = FirstCoercibleAmount(call.params)
    /\ (NormalizedObject /\ call.params = SomeRecommendation) =>
          /\ call.result.f.amount_usd = Num(1250)
          /\ call.result.f.reason = JsStr(Text(<<"goodwill">>))

\* C15: report normalization is idempotent: normalizing an already
\* normalized report with the same user identifier gives the same report.
C15_NormalizationIdempotent ==
    (AppliedCall("ReportForUi") /\ call.result # Thrown) =>
        normalizeReportForUi(call.result, call.params.user_id) = call.result

\* Invalid JSON text, a null or absent value, or a value that is neither an
\* object nor a string.
Unparseable(v) ==
    \/ v.t = "str" /\ ~JsonParse(v.s).ok
    \/ v.t \in {"null", "undefined", "num", "nan", "bool"}

GivenFields(v) ==
    IF v.t = "obj" THEN DOMAIN v.f
    ELSE IF v.t = "str" /\ JsonParse(v.s).ok /\ JsonParse(v.s).value.t = "obj"
    THEN DOMAIN JsonParse(v.s).value.f
    ELSE {}

\* C17: a normalized report contains every recognized field; any field
\* missing from the input is filled with its default: the empty string for
\* the draft response and both summaries, "medium" confidence, escalation
\* flag false, and null for both recommendations.
C17_EveryFieldWithDefault ==
    AppliedCall("ReportForUi") =>
        /\ call.result # Thrown
        /\ \A field \in DOMAIN DEFAULT_REPORT :
              /\ field \in DOMAIN call.result.f
              /\ field \notin GivenFields(call.params.agent_response) =>
                    call.result.f[field] = DEFAULT_REPORT[field]

C17_Witness ==
    /\ AppliedCall("ReportForUi")
    /\ GivenFields(call.params.agent_response) = {"escalation_flag"}
    /\ call.result.f.escalation_flag = JsBool(TRUE)
    /\ call.result.f.draft_response = EmptyString
    /\ call.result.f.decision_confidence = JsStr(Text(<<"medium">>))
    /\ call.result.f.credit_recommendation = JsNull

\* C18: every non-null normalized recommendation has the canonical shape:
\* reason is a string, the first non-empty among reason, credit_reason and
\* refund_reason, else the empty string, and amount is a finite number or
\* absent; this for every input object, whatever the types of its fields.
C18_CanonicalShape ==
    NormalizedObject =>
        /\ call.result.f.reason.t = "str"
        /\ call.result.f.reason = FirstNonEmptyReason(call.params)
        /\ call.result.f.amount_usd.t \in {"num", "null"}

\* The tokens that hold 32 hexadecimal characters in a row.
Hex32Inside == {"hex32", "hex40", "ref_hex32"}

HasHex32Run(w) == \E i \in 1..Len(w) : w[i] \in Hex32Inside

\* The text reads "your order" somewhere.
HasYourOrder(w) ==
    \E i \in 1..(Len(w) - 2) :
        w[i] = "your" /\ w[i + 1] = "sp" /\ w[i + 2] = "order"

SanitizedDraft ==
    /\ AppliedCall("sanitizeDraftResponse")
    /\ HasHex32Run(call.params.draft.s.w)

\* C21: for every draft response that contains a run of 32 hexadecimal
\* characters, the sanitized draft contains the phrase "your order" and
\* contains no remaining run of 32 hexadecimal characters.
C21_Hex32RunRedacted ==
    SanitizedDraft =>
        /\ HasYourOrder(call.result.s.w)
        /\ ~HasHex32Run(call.result.s.w)

\* The part of C21 that the patterns keep: a run of exactly 32 hexadecimal
\* characters between word boundaries becomes "your order".
C21_IsolatedHex32Redacted ==
    (AppliedCall("sanitizeDraftResponse")
       /\ \E i \in 1..Len(call.params.draft.s.w) :
             call.params.draft.s.w[i] = "hex32") =>
        /\ HasYourOrder(call.result.s.w)
        /\ \A i \in 1..Len(call.result.s.w) : call.result.s.w[i] # "hex32"

====
